---- MODULE Spec2Model ----
(***************************************************************************)
(* A model of the world/command orchestration core of AI-DnD: the Player,  *)
(* NPC, Item and Location entities (src/core/player.py, src/entities,      *)
(* src/core/location.py), the command handlers and the combat engine of    *)
(* GameWorld (src/core/game_world.py) and the command loop of main.py.     *)
(*                                                                         *)
(* Python strings that the code inspects (commands, item names, feature    *)
(* names) are sequences of one-character strings, so that lower(),         *)
(* startswith(), split() and the substring test are computed as the code   *)
(* computes them.  Result messages are tuples of their literal fragments   *)
(* and the interpolated values.                                            *)
(***************************************************************************)
EXTENDS Integers, Sequences, FiniteSets, TLC

VARIABLES
    player,         \* the Player object (core/player.py)
    npcs,           \* every NPC object created so far, indexed by creation order
    items,          \* every Item object created so far, indexed by creation order
    locations,      \* GameWorld.locations: location id -> Location
    current_state,  \* GameWorld.current_state (combat_active, current_enemy, ...)
    combat_state,   \* GameApp.combat_state of main.py
    result,         \* the result record returned by the last command
    generator,      \* the AIGenerator facade (ai/generator.py) and its callers
    session,        \* the commands submitted to the event loop (main.py)
    last            \* the last call: the operation, its inputs and random draws

vars == <<player, npcs, items, locations, current_state, combat_state, result, generator, session, last>>

----------------------------------------------------------------------------
(* Integer helpers (Python's max and min).                                 *)

Max(a, b) == IF a >= b THEN a ELSE b
Min(a, b) == IF a <= b THEN a ELSE b

\* None for an object reference (item ids and NPC ids start at 1).
None == 0
\* None for Item.uses_remaining.
NoUses == -1

----------------------------------------------------------------------------
(* core/player.py                                                          *)

\* Player(name): the dataclass defaults.
NewPlayer ==
    [ hp |-> 50, max_hp |-> 50, attack_power |-> 5, defense |-> 2,
      xp |-> 0, level |-> 1, inventory |-> <<>>,
      current_location_id |-> "",
      attributes |-> [equipped_weapon |-> None, equipped_armor |-> None],
      status_effects |-> <<>> ]

\* Variant of Player.attack without the critical doubling.
Player_attack_nocrit(p, base_roll) == base_roll + p.attack_power

\* Player.attack with base die roll r: the damage dealt.
Player_attack(p, base_roll) ==
    LET damage == base_roll + p.attack_power
    IN  IF base_roll = 8 THEN damage * 2 ELSE damage

\* Variant of Player.take_damage whose damage may be reduced to 0.
Player_take_damage_nofloor(p, amount) ==
    LET actual_damage == Max(0, amount - p.defense)
        hp == Max(0, p.hp - actual_damage)
    IN  [player |-> [p EXCEPT !.hp = hp], ret |-> (hp <= 0)]

\* Player.take_damage: the new player and the returned "defeated" flag.
Player_take_damage(p, amount) ==
    LET actual_damage == Max(1, amount - p.defense)
        hp == Max(0, p.hp - actual_damage)
    IN  [player |-> [p EXCEPT !.hp = hp], ret |-> (hp <= 0)]

\* Variant of Player.heal without the max_hp clamp.
Player_heal_noclamp(p, amount) ==
    LET old_hp == p.hp
        hp == p.hp + amount
    IN  [player |-> [p EXCEPT !.hp = hp], ret |-> hp - old_hp]

\* Player.heal: the new player and the returned amount healed.
Player_heal(p, amount) ==
    LET old_hp == p.hp
        hp == Min(p.max_hp, p.hp + amount)
    IN  [player |-> [p EXCEPT !.hp = hp], ret |-> hp - old_hp]

\* Variant of Player.level_up that leaves hp alone.
level_up_nohp(p) ==
    [p EXCEPT !.level = @ + 1,
              !.max_hp = @ + 10,
              !.attack_power = @ + 2,
              !.defense = @ + 1]

\* Player.level_up.
level_up(p) ==
    [p EXCEPT !.level = @ + 1,
              !.max_hp = @ + 10,
              !.hp = p.max_hp + 10,
              !.attack_power = @ + 2,
              !.defense = @ + 1]

\* Variant of Player.add_xp that levels up until the xp is below the threshold.
RECURSIVE add_xp_cascade(_, _)
add_xp_cascade(p, amount) ==
    LET q == [p EXCEPT !.xp = @ + amount]
    IN  IF q.xp >= q.level * 100
        THEN [player |-> add_xp_cascade(level_up(q), 0).player, ret |-> TRUE]
        ELSE [player |-> q, ret |-> FALSE]

\* Player.add_xp: the new player and the returned "leveled up" flag.
add_xp(p, amount) ==
    LET q == [p EXCEPT !.xp = @ + amount]
    IN  IF q.xp >= q.level * 100
        THEN [player |-> level_up(q), ret |-> TRUE]
        ELSE [player |-> q, ret |-> FALSE]

----------------------------------------------------------------------------
(* entities/npcs.py                                                        *)

\* NPC.take_damage: the new NPC and the returned reduced damage.
NPC_take_damage(n, amount) ==
    LET reduced_damage == Max(1, amount - n.defense)
        hp == Max(0, n.hp - reduced_damage)
    IN  [npc |-> [n EXCEPT !.hp = hp,
                           !.is_defeated = IF hp = 0 THEN TRUE ELSE @],
         ret |-> reduced_damage]

\* NPCFactory.create_combat_npc: the stats of a combat NPC scaled to player_level.
\* location_theme is "dangerous" or "normal"; int(level * 1.2) is level * 12 \div 10.
create_combat_npc(name, player_level, location_theme) ==
    LET dangerous == location_theme = "dangerous"
        level == Max(1, IF dangerous THEN (player_level * 12) \div 10 ELSE player_level)
        hp == 10 + level * 5
    IN  [ name |-> name,
          hp |-> hp, max_hp |-> hp,
          attack_power |-> 3 + level * 2,
          defense |-> 1 + level \div 2,
          difficulty |-> IF dangerous THEN "hard" ELSE "normal",
          level |-> level,
          is_defeated |-> FALSE ]

----------------------------------------------------------------------------
(* The entity methods on their own: a specification whose initial states   *)
(* draw a player and an NPC from bounded sets and whose actions each apply *)
(* one method once.                                                        *)

ULevels == 2            \* player and NPC levels 1..ULevels
UWeaponBonus == 2       \* effect_value of an equipped weapon
UArmorBonus == 10       \* effect_value of an equipped armor
HealAmounts == {-3, 0, 1, 7, 100}
DamageAmounts == {-2, 0, 1, 2, 3, 10, 200}
XpAmounts == {0, 10, 15, 20, 22, 110, 300}
BaseRolls == 1..8       \* DiceRoller.roll("1d8").total

\* A player of the given level (level - 1 level-ups after construction) with
\* the bonuses of the equipped items applied.
UnitPlayer(level, weapon, armor, hp, xp) ==
    [NewPlayer EXCEPT !.level = level,
                      !.max_hp = 50 + 10 * (level - 1),
                      !.attack_power = 5 + 2 * (level - 1) + weapon,
                      !.defense = 2 + (level - 1) + armor,
                      !.hp = hp,
                      !.xp = xp]

UnitXp(level) == IF level = 1 THEN {0, 90} ELSE {(level - 1) * 100, level * 100 - 10, level * 100 + 50}

\* The event loop of the front end before any command is submitted: no task,
\* nobody holds the loop.
NewSession == [ tasks |-> <<>>, current |-> 0 ]

NumCallers == 2   \* coroutines that call generate_content

Callers == 1..NumCallers

\* AIGenerator.__init__: an empty context_history and a free lock; no caller
\* is inside generate_content.  calls counts the calls of generate_content,
\* clock is the time of datetime.now().
NewGenerator ==
    [ context_history |-> <<>>, locked |-> FALSE, waiters |-> <<>>,
      pc |-> [t \in Callers |-> "idle"], calls |-> 0, clock |-> 0 ]

UnitInitRest ==
    /\ generator = NewGenerator
    /\ session = NewSession
    /\ items = <<>>
    /\ locations = <<>>
    /\ current_state = [combat_active |-> FALSE, current_enemy |-> None,
                        discovered_secrets |-> {}]
    /\ combat_state = FALSE
    /\ result = [message |-> <<>>, next_situation |-> "exploration"]
    /\ last = [op |-> "init"]

UnitInit ==
    /\ \/ \E level \in 1..ULevels, weapon \in {0, UWeaponBonus}, armor \in {0, UArmorBonus} :
            \E hp \in 0..(50 + 10 * (level - 1)), xp \in UnitXp(level) :
                /\ player = UnitPlayer(level, weapon, armor, hp, xp)
                /\ npcs = <<create_combat_npc("goblin", level, "normal")>>
       \/ \E level \in 1..ULevels, weapon \in {0, UWeaponBonus}, nlevel \in 1..ULevels :
            \E nhp \in 1..(10 + nlevel * 5) :
                /\ player = UnitPlayer(level, weapon, 0, 50 + 10 * (level - 1), 0)
                /\ npcs = <<[create_combat_npc("goblin", nlevel, "normal") EXCEPT !.hp = nhp]>>
    /\ UnitInitRest

UnitCall(op, arg, ret) ==
    last' = [op |-> op, arg |-> arg, ret |-> ret, player |-> player, npc |-> npcs[1]]

UnitHeal ==
    /\ last.op = "init"
    /\ \E amount \in HealAmounts :
         LET r == Player_heal(player, amount)
         IN  /\ player' = r.player
             /\ UnitCall("heal", amount, r.ret)
    /\ UNCHANGED <<npcs, items, locations, current_state, combat_state, result, generator, session>>

UnitPlayerTakeDamage ==
    /\ last.op = "init"
    /\ \E amount \in DamageAmounts :
         LET r == Player_take_damage(player, amount)
         IN  /\ player' = r.player
             /\ UnitCall("player_take_damage", amount, r.ret)
    /\ UNCHANGED <<npcs, items, locations, current_state, combat_state, result, generator, session>>

UnitNpcTakeDamage ==
    /\ last.op = "init"
    /\ \E amount \in DamageAmounts :
         LET r == NPC_take_damage(npcs[1], amount)
         IN  /\ npcs' = <<r.npc>>
             /\ UnitCall("npc_take_damage", amount, r.ret)
    /\ UNCHANGED <<player, items, locations, current_state, combat_state, result, generator, session>>

\* damage = self.player.attack(); npc.take_damage(damage)
UnitAttack ==
    /\ last.op = "init"
    /\ \E base_roll \in BaseRolls :
         LET damage == Player_attack(player, base_roll)
             r == NPC_take_damage(npcs[1], damage)
         IN  /\ npcs' = <<r.npc>>
             /\ UnitCall("attack", base_roll, damage)
    /\ UNCHANGED <<player, items, locations, current_state, combat_state, result, generator, session>>

UnitAddXp ==
    /\ last.op = "init"
    /\ \E amount \in XpAmounts :
         LET r == add_xp(player, amount)
         IN  /\ player' = r.player
             /\ UnitCall("add_xp", amount, r.ret)
    /\ UNCHANGED <<npcs, items, locations, current_state, combat_state, result, generator, session>>

UnitLevelUp ==
    /\ last.op = "init"
    /\ player' = level_up(player)
    /\ UnitCall("level_up", 0, 0)
    /\ UNCHANGED <<npcs, items, locations, current_state, combat_state, result, generator, session>>

UnitNext ==
    \/ UnitHeal
    \/ UnitPlayerTakeDamage
    \/ UnitNpcTakeDamage
    \/ UnitAttack
    \/ UnitAddXp
    \/ UnitLevelUp

SpecUnit == UnitInit /\ [][UnitNext]_vars

----------------------------------------------------------------------------
(* Properties of the entity methods (checked under SpecUnit).              *)

\* C3: Player.heal(amount) returns exactly new_hp - old_hp, and the returned
\* value never exceeds max_hp - old_hp.
C3_HealReturnsClampedDelta ==
    last.op = "heal" =>
        /\ last.ret = player.hp - last.player.hp
        /\ last.ret <= last.player.max_hp - last.player.hp

\* A heal that is cut by the clamp: the amount exceeds the room left.
C3_Witness ==
    /\ last.op = "heal"
    /\ last.arg > last.player.max_hp - last.player.hp
    /\ last.player.hp < last.player.max_hp
    /\ last.ret = last.player.max_hp - last.player.hp

\* C4: take_damage on the player or on an NPC applies at least 1 damage: a
\* target with hp >= 1 loses at least 1 hp, whatever the amount and the defense.
C4_DamageFloor ==
    /\ last.op = "player_take_damage" /\ last.player.hp >= 1
            => player.hp <= last.player.hp - 1
    /\ last.op = "npc_take_damage" /\ last.npc.hp >= 1
            => npcs[1].hp <= last.npc.hp - 1 /\ last.ret >= 1

\* A hit whose amount does not exceed the defense still costs 1 hp.
C4_Witness ==
    /\ last.op = "player_take_damage"
    /\ last.arg <= last.player.defense
    /\ last.player.hp >= 2
    /\ player.hp = last.player.hp - 1

\* C5: a player attack with base roll r and attack_power a deals r + a,
\* doubled when r = 8; the NPC loses max(1, raw - defense) hp, floored at 0.
\* With a = 5, r = 5, NPC defense 2 and hp 10 the NPC ends at hp 2, undefeated.
C5_AttackDamage ==
    last.op = "attack" =>
        LET r == last.arg
            a == last.player.attack_power
            raw == IF r = 8 THEN 2 * (r + a) ELSE r + a
            lost == Max(1, raw - last.npc.defense)
        IN  /\ last.ret = raw
            /\ npcs[1].hp = Max(0, last.npc.hp - lost)
            /\ (a = 5 /\ r = 5 /\ last.npc.defense = 2 /\ last.npc.hp = 10)
                    => (npcs[1].hp = 2 /\ ~npcs[1].is_defeated)

\* Scenario A has happened: roll 5, attack_power 5, NPC defense 2 and hp 10.
C5_Witness ==
    /\ last.op = "attack"
    /\ last.arg = 5
    /\ last.player.attack_power = 5
    /\ last.npc.defense = 2
    /\ last.npc.hp = 10
    /\ npcs[1].hp = 2

\* C6: add_xp returns true and raises the level by exactly one when the xp
\* after the grant is >= (level before) * 100, and otherwise returns false and
\* leaves the level unchanged; from level 1, xp 90 -> 110 ends at level 2 with
\* hp = max_hp.
C6_AddXpSingleLevel ==
    last.op = "add_xp" =>
        LET reached == last.player.xp + last.arg >= last.player.level * 100
        IN  /\ last.ret = reached
            /\ player.xp = last.player.xp + last.arg
            /\ reached => player.level = last.player.level + 1
            /\ ~reached => player.level = last.player.level
            /\ (last.player.level = 1 /\ last.player.xp = 90 /\ last.arg = 20)
                    => (last.ret /\ player.level = 2 /\ player.hp = player.max_hp)

\* A grant that levels up once although the xp also meets the next threshold.
C6_Witness ==
    /\ last.op = "add_xp"
    /\ last.ret
    /\ player.level = last.player.level + 1
    /\ player.xp >= player.level * 100

\* C7: across every level-up, level, max_hp, attack_power and defense never
\* decrease, and hp equals max_hp right after it.
C7_LevelUpMonotonic ==
    (last.op = "level_up" \/ (last.op = "add_xp" /\ last.ret)) =>
        /\ player.level >= last.player.level
        /\ player.max_hp >= last.player.max_hp
        /\ player.attack_power >= last.player.attack_power
        /\ player.defense >= last.player.defense
        /\ player.hp = player.max_hp

\* A level-up of a wounded player.
C7_Witness ==
    /\ last.op = "level_up"
    /\ last.player.hp < last.player.max_hp
    /\ player.level = last.player.level + 1

----------------------------------------------------------------------------
(* Python string operations on sequences of characters.                    *)

UpperCase == <<"A", "B", "C", "D", "E", "F", "G", "H", "I", "J", "K", "L", "M",
               "N", "O", "P", "Q", "R", "S", "T", "U", "V", "W", "X", "Y", "Z">>
LowerCase == <<"a", "b", "c", "d", "e", "f", "g", "h", "i", "j", "k", "l", "m",
               "n", "o", "p", "q", "r", "s", "t", "u", "v", "w", "x", "y", "z">>

LowerChar(c) ==
    IF \E i \in 1..26 : UpperCase[i] = c
    THEN LowerCase[CHOOSE i \in 1..26 : UpperCase[i] = c]
    ELSE c

\* str.lower()
Lower(s) == [i \in 1..Len(s) |-> LowerChar(s[i])]

\* s[k:]
From(s, k) == SubSeq(s, k + 1, Len(s))

\* s.startswith(p)
StartsWith(s, p) == Len(s) >= Len(p) /\ SubSeq(s, 1, Len(p)) = p

\* a in b (substring test)
IsSubstr(a, b) == \E i \in 0..(Len(b) - Len(a)) : SubSeq(b, i + 1, i + Len(a)) = a

\* str.strip()
Strip(s) ==
    LET idx == {i \in 1..Len(s) : s[i] # " "}
    IN  IF idx = {} THEN <<>>
        ELSE SubSeq(s, CHOOSE i \in idx : \A j \in idx : i <= j,
                       CHOOSE i \in idx : \A j \in idx : i >= j)

\* str.split(): the words separated by runs of blanks.
RECURSIVE Split(_)
Split(s) ==
    LET t == Strip(s)
        sp == {i \in 1..Len(t) : t[i] = " "}
    IN  IF t = <<>> THEN <<>>
        ELSE IF sp = {} THEN <<t>>
        ELSE LET k == CHOOSE i \in sp : \A j \in sp : i <= j
             IN  <<SubSeq(t, 1, k - 1)>> \o Split(From(t, k))

\* str.split(' ', 1): the text before the first blank and the rest.
SplitFirst(s) ==
    LET sp == {i \in 1..Len(s) : s[i] = " "}
    IN  IF sp = {} THEN <<s>>
        ELSE LET k == CHOOSE i \in sp : \A j \in sp : i <= j
             IN  <<SubSeq(s, 1, k - 1), From(s, k)>>

\* for prefix in prefixes: if s.startswith(prefix): s = s[len(prefix):]
RECURSIVE RemovePrefixes(_, _)
RemovePrefixes(s, prefixes) ==
    IF prefixes = <<>> THEN s
    ELSE RemovePrefixes(IF StartsWith(s, Head(prefixes)) THEN From(s, Len(Head(prefixes))) ELSE s,
                        Tail(prefixes))

\* The sequence of the elements of seq that satisfy Test, in order.
SelectIdx(seq, Test(_)) ==
    LET F[i \in 0..Len(seq)] ==
            IF i = 0 THEN <<>>
            ELSE IF Test(seq[i]) THEN Append(F[i - 1], seq[i]) ELSE F[i - 1]
    IN  F[Len(seq)]

\* list.remove(x) / list.pop(i) of the first element equal to x.
RemoveFirst(seq, x) ==
    IF \E i \in 1..Len(seq) : seq[i] = x
    THEN LET k == CHOOSE i \in 1..Len(seq) : seq[i] = x /\ \A j \in 1..(i - 1) : seq[j] # x
         IN  SubSeq(seq, 1, k - 1) \o SubSeq(seq, k + 1, Len(seq))
    ELSE seq

\* The elements of a sequence as a set.
Range(seq) == {seq[i] : i \in 1..Len(seq)}

\* String literals of the source.
s_move == <<"m", "o", "v", "e">>
s_take == <<"t", "a", "k", "e">>
s_use == <<"u", "s", "e">>
s_attack == <<"a", "t", "t", "a", "c", "k">>
s_search == <<"s", "e", "a", "r", "c", "h">>
s_examine == <<"e", "x", "a", "m", "i", "n", "e">>
s_look == <<"l", "o", "o", "k">>
s_inventory == <<"i", "n", "v", "e", "n", "t", "o", "r", "y">>
s_talk == <<"t", "a", "l", "k">>
s_speak == <<"s", "p", "e", "a", "k">>
s_defend == <<"d", "e", "f", "e", "n", "d">>
s_retreat == <<"r", "e", "t", "r", "e", "a", "t">>
s_north == <<"n", "o", "r", "t", "h">>
s_south == <<"s", "o", "u", "t", "h">>
s_east == <<"e", "a", "s", "t">>
s_west == <<"w", "e", "s", "t">>
s_potion == <<"p", "o", "t", "i", "o", "n">>
s_weapon == <<"w", "e", "a", "p", "o", "n">>
s_armor == <<"a", "r", "m", "o", "r">>
n_HealthPotion == <<"H", "e", "a", "l", "t", "h", " ", "P", "o", "t", "i", "o", "n">>
n_WoodenSword == <<"W", "o", "o", "d", "e", "n", " ", "S", "w", "o", "r", "d">>

\* The prefixes stripped from item names and from search areas.
ItemPrefixes == <<<<"t", "h", "e", " ">>, <<"a", " ">>, <<"a", "n", " ">>>>
SearchPrefixes == <<<<"i", "n", " ">>,
                    <<"a", "t", " ">>,
                    <<"t", "h", "e", " ">>,
                    <<"a", "r", "o", "u", "n", "d", " ">>,
                    <<"a", "b", "o", "u", "t", " ">>>>
\* The theme words that make a location dangerous.
DangerWords == {<<"d", "a", "r", "k">>,
                <<"e", "v", "i", "l">>,
                <<"s", "h", "a", "d", "o", "w">>,
                <<"d", "a", "n", "g", "e", "r">>}

----------------------------------------------------------------------------
(* entities/items.py                                                       *)

\* ItemType(item_type.lower()), TREASURE when the text names no item type.
\* The enum values the model creates are potion, weapon, armor and treasure.
ItemTypeOf(item_type) ==
    LET t == Lower(item_type)
    IN  IF t = s_potion THEN "potion"
        ELSE IF t = s_weapon THEN "weapon"
        ELSE IF t = s_armor THEN "armor"
        ELSE "treasure"

\* ItemFactory.create_item(name, item_type, effect_value)
create_item(name, item_type, effect_value) ==
    [ name |-> name,
      item_type |-> ItemTypeOf(item_type),
      effect_value |-> effect_value,
      uses_remaining |-> NoUses,
      is_taken |-> FALSE,
      is_used |-> FALSE,
      effects |-> IF item_type = s_potion THEN <<[type |-> "heal", value |-> effect_value]>>
                  ELSE IF item_type = s_weapon THEN <<[type |-> "damage_boost", value |-> effect_value]>>
                  ELSE IF item_type = s_armor THEN <<[type |-> "defense_boost", value |-> effect_value]>>
                  ELSE <<>> ]

\* ItemFactory.create_healing_potion(name, heal_amount)
create_healing_potion(name, heal_amount) ==
    [ name |-> name,
      item_type |-> "potion",
      effect_value |-> heal_amount,
      uses_remaining |-> 1,
      is_taken |-> FALSE,
      is_used |-> FALSE,
      effects |-> <<[type |-> "heal", value |-> heal_amount]>> ]

\* ItemFactory.create_weapon(name, damage_bonus)
create_weapon(name, damage_bonus) ==
    [ name |-> name,
      item_type |-> "weapon",
      effect_value |-> damage_bonus,
      uses_remaining |-> NoUses,
      is_taken |-> FALSE,
      is_used |-> FALSE,
      effects |-> <<[type |-> "damage_boost", value |-> damage_bonus]>> ]

\* Item._consume_use
consume_use(item) ==
    IF item.uses_remaining # NoUses
    THEN [item EXCEPT !.uses_remaining = @ - 1,
                      !.is_used = IF item.uses_remaining - 1 <= 0 THEN TRUE ELSE @]
    ELSE item

\* The effect loop of Item.use: the player after the first k effects and
\* whether one of them succeeded.  (Items of the factories carry the effect
\* types heal, damage_boost and defense_boost.)
ApplyEffects(item, p) ==
    LET F[k \in 0..Len(item.effects)] ==
            IF k = 0 THEN [player |-> p, success |-> FALSE, messages |-> <<>>]
            ELSE LET prev == F[k - 1]
                     effect == item.effects[k]
                 IN  IF effect.type = "heal"
                     THEN LET h == Player_heal(prev.player, effect.value)
                          IN  IF h.ret > 0
                              THEN [player |-> h.player, success |-> TRUE,
                                    messages |-> Append(prev.messages, <<"restore ", h.ret, " HP">>)]
                              ELSE [prev EXCEPT !.player = h.player]
                     ELSE IF effect.type = "damage_boost"
                     THEN [player |-> [prev.player EXCEPT !.attack_power = @ + effect.value],
                           success |-> TRUE,
                           messages |-> Append(prev.messages,
                                            <<"increase attack power by ", effect.value>>)]
                     ELSE IF effect.type = "defense_boost"
                     THEN [player |-> [prev.player EXCEPT !.defense = @ + effect.value],
                           success |-> TRUE,
                           messages |-> Append(prev.messages,
                                            <<"increase defense by ", effect.value>>)]
                     ELSE prev
    IN  F[Len(item.effects)]

\* Item.use(player, location): the player and the item afterwards, the success
\* flag and the message.  The items of the factories have no requirements.
Item_use(item, p) ==
    IF item.is_used /\ item.uses_remaining = 0
    THEN [player |-> p, item |-> item, success |-> FALSE,
          message |-> <<"The ", item.name, " has already been used up.">>]
    ELSE LET r == ApplyEffects(item, p)
         IN  IF r.success
             THEN [player |-> r.player, item |-> consume_use(item), success |-> TRUE,
                   message |-> <<"You use the ", item.name, " and ", r.messages, ".">>]
             ELSE [player |-> r.player, item |-> item, success |-> FALSE,
                   message |-> <<"The ", item.name, " seems to have no effect.">>]

\* Player.remove_item(item_id): pops the first inventory entry with that id.
remove_item(p, item_id) == [p EXCEPT !.inventory = RemoveFirst(@, item_id)]

\* Player.equip_item(item) for the item with id item_id: the player afterwards,
\* the success flag and the message.
equip_item(p, item_id, its) ==
    LET item == its[item_id]
        slot == IF item.item_type = "weapon" THEN "equipped_weapon" ELSE "equipped_armor"
        old == p.attributes[slot]
    IN  IF item.item_type \in {"weapon", "armor"}
        THEN IF old = item_id
             THEN [player |-> p, success |-> FALSE,
                   message |-> <<"The ", item.name, " is already equipped.">>]
             ELSE LET removed == IF old # None THEN its[old].effect_value ELSE 0
                      q == [p EXCEPT !.attributes[slot] = item_id]
                  IN  [player |-> IF slot = "equipped_weapon"
                                  THEN [q EXCEPT !.attack_power = @ - removed + item.effect_value]
                                  ELSE [q EXCEPT !.defense = @ - removed + item.effect_value],
                       success |-> TRUE,
                       message |-> <<"You equip the ", item.name, ".">>]
        ELSE [player |-> p, success |-> FALSE,
              message |-> <<"You can't equip the ", item.name, ".">>]

----------------------------------------------------------------------------
(* core/location.py                                                        *)

\* Location(id, name, description, theme, features, atmosphere): the fields
\* the handlers read or write.  searchable_features holds the (lower-case)
\* keys of the dict; every registered list of discoveries is non-empty.
\* description is "text" for a string and "null" for None.
NewLocation(theme, features) ==
    [ description |-> "text", theme |-> theme, features |-> features,
      npcs |-> <<>>, items |-> <<>>, exits |-> <<>>,
      state_changes |-> <<>>, visited |-> FALSE,
      hidden_items |-> <<>>, searchable_features |-> {} ]

\* dict[key] = value
DictSet(f, key, value) ==
    [k \in DOMAIN f \cup {key} |-> IF k = key THEN value ELSE f[k]]

\* Location.add_exit(direction, location_id)
add_exit(loc, direction, location_id) ==
    [loc EXCEPT !.exits = DictSet(@, Lower(direction), location_id)]

\* Location.add_searchable_feature(feature, discoveries)
add_searchable_feature(loc, feature) ==
    [loc EXCEPT !.searchable_features = @ \cup {Lower(feature)}]

\* Variant of Location.get_npc that also returns defeated NPCs.
get_npc_any(loc, npc_name, ns) ==
    LET hit == {i \in 1..Len(loc.npcs) :
                    Lower(ns[loc.npcs[i]].name) = Lower(npc_name)}
    IN  IF npc_name = <<>> \/ hit = {} THEN None
        ELSE loc.npcs[CHOOSE i \in hit : \A j \in hit : i <= j]

\* Location.get_npc(npc_name): the first undefeated NPC with that name, or None.
get_npc(loc, npc_name, ns) ==
    LET hit == {i \in 1..Len(loc.npcs) :
                    /\ Lower(ns[loc.npcs[i]].name) = Lower(npc_name)
                    /\ ~ns[loc.npcs[i]].is_defeated}
    IN  IF npc_name = <<>> \/ hit = {} THEN None
        ELSE loc.npcs[CHOOSE i \in hit : \A j \in hit : i <= j]

\* Variant of search_feature that shows the items found and leaves them among
\* the hidden items.
search_feature_keep(loc, feature, its) ==
    LET feature_lower == Lower(feature)
        Found(id) == IsSubstr(Lower(its[id].name), feature_lower)
        found_items == SelectIdx(loc.hidden_items, Found)
        discoveries == feature_lower \in loc.searchable_features
    IN  [ loc |-> [loc EXCEPT !.items = @ \o found_items],
          found_items |-> found_items,
          discoveries |-> discoveries,
          none |-> (found_items = <<>> /\ ~discoveries) ]

\* Location.search_feature(feature): the location afterwards, the hidden items
\* found and whether discoveries are registered for the feature; none is TRUE
\* when the method returns None.
search_feature(loc, feature, its) ==
    LET feature_lower == Lower(feature)
        Found(id) == IsSubstr(Lower(its[id].name), feature_lower)
        Kept(id) == ~Found(id)
        found_items == SelectIdx(loc.hidden_items, Found)
        discoveries == feature_lower \in loc.searchable_features
    IN  [ loc |-> [loc EXCEPT !.hidden_items = SelectIdx(@, Kept),
                              !.items = @ \o found_items],
          found_items |-> found_items,
          discoveries |-> discoveries,
          none |-> (found_items = <<>> /\ ~discoveries) ]

----------------------------------------------------------------------------
(* core/game_world.py: the world is the record of the objects a handler    *)
(* reads and writes; a handler maps a world to the world afterwards and    *)
(* the result record it returns.                                           *)

World ==
    [ player |-> player, npcs |-> npcs, items |-> items,
      locations |-> locations, current_state |-> current_state ]

Result(message, next_situation) ==
    [message |-> message, next_situation |-> next_situation]

\* A handler that returns: raised tells whether an exception was raised (and
\* handled) on the way.
Out(w, message, next_situation) ==
    [w |-> w, result |-> Result(message, next_situation), enemy_attacked |-> FALSE,
     raised |-> FALSE]

\* A handler that raises an exception in the world w: it returns no result.
Raised(w) ==
    [w |-> w, result |-> Result(<<"exception">>, "exception"), enemy_attacked |-> FALSE,
     raised |-> TRUE]

\* try: ... except Exception: the except branch answers for a body that raised.
Caught(out, handled) == IF out.raised THEN [handled EXCEPT !.raised = TRUE] ELSE out

\* The first index of seq whose element satisfies Test, 0 when there is none.
FirstIdx(seq, Test(_)) ==
    LET hit == {i \in 1..Len(seq) : Test(seq[i])}
    IN  IF hit = {} THEN 0 ELSE CHOOSE i \in hit : \A j \in hit : i <= j

\* Body(value): the value is bound to a name once (result = ...; use of result).
With(value, Body(_)) == Body(value)

\* Variant of _pick_up_item that leaves the item in the location.
pick_up_item_keep(w, item_id, loc_id) ==
    Out([w EXCEPT !.items[item_id].is_taken = TRUE,
                  !.player.inventory = Append(@, item_id)],
        <<"You pick up the ", w.items[item_id].name, ".">>, "exploration")

\* GameWorld._pick_up_item(item, location)
pick_up_item(w, item_id, loc_id) ==
    Out([w EXCEPT !.items[item_id].is_taken = TRUE,
                  !.player.inventory = Append(@, item_id),
                  !.locations[loc_id].items = RemoveFirst(@, item_id)],
        <<"You pick up the ", w.items[item_id].name, ".">>, "exploration")

\* The flexible match of an item name: the words of item_name all occur in name.
PartialMatch(item_name, name) ==
    \/ IsSubstr(item_name, Lower(name))
    \/ \A word \in Range(Split(item_name)) : IsSubstr(word, Lower(name))

\* GameWorld._handle_item_take(item_name, location)
handle_item_take(w, item_name_raw, loc_id) ==
    IF item_name_raw = <<>>
    THEN Out(w, <<"What do you want to take?">>, "exploration")
    ELSE LET item_name == RemovePrefixes(Strip(Lower(item_name_raw)), ItemPrefixes)
             loc == w.locations[loc_id]
             Match(id) ==
                 \/ Lower(w.items[id].name) = item_name /\ ~w.items[id].is_taken
                 \/ ~w.items[id].is_taken /\ PartialMatch(item_name, w.items[id].name)
             k == FirstIdx(loc.items, Match)
         IN  IF k # 0
             THEN pick_up_item(w, loc.items[k], loc_id)
             ELSE Out(w, <<"You don't see ", item_name, " here.">>, "exploration")

\* GameWorld._handle_item_use(item_name, location)
handle_item_use(w, item_name_raw, loc_id) ==
    IF item_name_raw = <<>>
    THEN Out(w, <<"What do you want to use?">>, "exploration")
    ELSE LET item_name == RemovePrefixes(Strip(Lower(item_name_raw)), ItemPrefixes)
             Match(id) ==
                 \/ Lower(w.items[id].name) = item_name
                 \/ PartialMatch(item_name, w.items[id].name)
             k == FirstIdx(w.player.inventory, Match)
         IN  IF k # 0
             THEN LET id == w.player.inventory[k]
                      r == Item_use(w.items[id], w.player)
                  IN  Out([w EXCEPT !.player = IF r.success THEN remove_item(r.player, id)
                                                ELSE r.player,
                                    !.items[id] = r.item],
                          r.message, "exploration")
             ELSE Out(w, <<"You don't have ", item_name, " to use.">>, "exploration")

\* The lenient feature match of _handle_search.
FeatureMatch(area, feature) ==
    \/ IsSubstr(area, Lower(feature))
    \/ IsSubstr(Lower(feature), area)
    \/ \E word \in Range(Split(area)) : IsSubstr(word, Lower(feature))

\* The discoveries loop of the generic area search: items are created and
\* added to the visible items, secrets are added to discovered_secrets.
AddDiscoveries(w, loc_id, discoveries) ==
    LET F[k \in 0..Len(discoveries)] ==
            IF k = 0 THEN w
            ELSE LET d == discoveries[k]
                     v == F[k - 1]
                 IN  IF d.type = "item"
                     THEN [v EXCEPT !.items = Append(@, create_item(d.name, d.item_type, d.effect_value)),
                                    !.locations[loc_id].items = Append(@, Len(v.items) + 1)]
                     ELSE IF d.type = "secret"
                     THEN [v EXCEPT !.current_state.discovered_secrets = @ \cup {d.description}]
                     ELSE v
    IN  F[Len(discoveries)]

\* GameWorld._handle_search(area, location); search_response is the envelope
\* the content generator returns for the generic area search.
handle_search(w, area_raw, loc_id, search_response) ==
    LET area == IF area_raw # <<>>
                THEN RemovePrefixes(Strip(Lower(area_raw)), SearchPrefixes)
                ELSE area_raw
        loc == w.locations[loc_id]
        Match(feature) == FeatureMatch(area, feature)
        k == FirstIdx(loc.features, Match)
        sr == search_feature(loc, loc.features[k], w.items)
        names == [i \in 1..Len(sr.found_items) |-> w.items[sr.found_items[i]].name]
        generic(v) == Out(AddDiscoveries(v, loc_id, search_response.discoveries),
                          <<"generated: ", search_response.description>>, "exploration")
    IN  IF area # <<>>
        THEN IF k = 0
             THEN Out(w, <<"You don't see ", area, " here to search.">>, "exploration")
             ELSE IF ~sr.none
             THEN Out([w EXCEPT !.locations[loc_id] = sr.loc],
                      <<"You carefully search the ", loc.features[k], ".", "You find ", names,
                        sr.discoveries>>,
                      "exploration")
             ELSE generic([w EXCEPT !.locations[loc_id] = sr.loc])
        ELSE generic(w)

\* The tables of _generate_location.
location_types(direction) ==
    IF direction = s_north THEN {"forest", "mountains", "hills"}
    ELSE IF direction = s_south THEN {"valley", "plains", "swamp"}
    ELSE IF direction = s_east THEN {"river", "lake", "cliffs"}
    ELSE IF direction = s_west THEN {"caves", "ruins", "canyon"}
    ELSE {"wilderness"}

Cardinal == {s_north, s_south, s_east, s_west}

opposite_directions(direction) ==
    IF direction = s_north THEN s_south
    ELSE IF direction = s_south THEN s_north
    ELSE IF direction = s_east THEN s_west
    ELSE s_east

\* f"{location_type}_{exit_dir}"
ExitId(location_type, exit_dir) == <<location_type, "_", exit_dir>>

\* The theme test of _populate_location.
IsDangerous(theme) == \E word \in DangerWords : IsSubstr(word, Lower(theme))

\* NPCFactory.calculate_xp_reward(npc): int((10 + level * 5) * multiplier), the
\* multiplier being 1.0 for normal and 1.5 for hard NPCs.
calculate_xp_reward(npc) ==
    LET base == 10 + npc.level * 5
    IN  IF npc.difficulty = "hard" THEN (base * 15) \div 10 ELSE base

\* The items member of the population envelope holds an entry that is no
\* mapping: item_data.get raises, and the except clause of _populate_location
\* ends the population after the NPCs.
ItemsMalformed(pd) == "items_malformed" \in DOMAIN pd /\ pd.items_malformed

\* GameWorld._populate_location(location, params) applied to the location loc
\* under construction.  gen holds what the content generator returned
\* (gen.population) and the random draws (gen.item_hidden for the items of the
\* population, gen.searchable for the features, gen.potion_hidden).
populate_location(w, loc, gen) ==
    LET pd == gen.population
        difficulty == IF IsDangerous(loc.theme) THEN "dangerous" ELSE "normal"
        N[k \in 0..Len(pd.npcs)] ==
            IF k = 0 THEN [npcs |-> w.npcs, loc |-> loc]
            ELSE [npcs |-> Append(N[k - 1].npcs,
                                  create_combat_npc(pd.npcs[k].name, w.player.level, difficulty)),
                  loc |-> [N[k - 1].loc EXCEPT !.npcs = Append(@, Len(N[k - 1].npcs) + 1)]]
        afterNpcs == N[Len(pd.npcs)]
        I[k \in 0..Len(pd.items)] ==
            IF k = 0 THEN [items |-> w.items, loc |-> afterNpcs.loc]
            ELSE LET item_data == pd.items[k]
                     effect_value == Max(item_data.effect_value, w.player.level * 2)
                     item == create_item(item_data.name, item_data.type, effect_value)
                     id == Len(I[k - 1].items) + 1
                 IN  [items |-> Append(I[k - 1].items, item),
                      loc |-> IF gen.item_hidden[k]
                              THEN [I[k - 1].loc EXCEPT !.hidden_items = Append(@, id)]
                              ELSE [I[k - 1].loc EXCEPT !.items = Append(@, id)]]
        afterItems == I[Len(pd.items)]
        S[k \in 0..Len(loc.features)] ==
            IF k = 0 THEN afterItems.loc
            ELSE IF loc.features[k] \in gen.searchable
                 THEN add_searchable_feature(S[k - 1], loc.features[k])
                 ELSE S[k - 1]
        afterFeatures == S[Len(loc.features)]
        potion == create_healing_potion(n_HealthPotion, 20 * w.player.level)
        potion_id == Len(afterItems.items) + 1
    IN  IF pd.empty
        THEN [w |-> w, loc |-> loc]
        ELSE IF ItemsMalformed(pd)
        THEN [w |-> [w EXCEPT !.npcs = afterNpcs.npcs], loc |-> afterNpcs.loc]
        ELSE IF IsDangerous(loc.theme)
        THEN [w |-> [w EXCEPT !.npcs = afterNpcs.npcs,
                              !.items = Append(afterItems.items, potion)],
              loc |-> IF gen.potion_hidden
                      THEN [afterFeatures EXCEPT !.hidden_items = Append(@, potion_id)]
                      ELSE [afterFeatures EXCEPT !.items = Append(@, potion_id)]]
        ELSE [w |-> [w EXCEPT !.npcs = afterNpcs.npcs, !.items = afterItems.items],
              loc |-> afterFeatures]

f_strange_markings ==
    <<"s", "t", "r", "a", "n", "g", "e", " ", "m", "a", "r", "k", "i", "n", "g", "s">>
t_mysterious == <<"m", "y", "s", "t", "e", "r", "i", "o", "u", "s">>

\* Variant of _create_fallback_location that does not store the location.
create_fallback_location_unstored(w, location_id, direction) == w

\* GameWorld._create_fallback_location(location_id, direction)
create_fallback_location(w, location_id, direction) ==
    LET location == NewLocation(t_mysterious, <<<<"p", "a", "t", "h">>, f_strange_markings>>)
        withReturn == IF direction \in Cardinal
                      THEN add_exit(location, opposite_directions(direction),
                                    w.player.current_location_id)
                      ELSE location
    IN  [w EXCEPT !.locations = DictSet(@, location_id, withReturn)]

\* GameWorld._generate_location(location_id, direction): gen.location_type and
\* gen.extra are the random draws, gen.data is the location_description
\* envelope of the content generator.
generate_location(w, location_id, direction, gen) ==
    LET new_location == [NewLocation(gen.data.theme, gen.data.features)
                            EXCEPT !.description = gen.data.description]
        withReturn == IF direction \in Cardinal
                      THEN add_exit(new_location, opposite_directions(direction),
                                    w.player.current_location_id)
                      ELSE new_location
        E[k \in 0..Len(gen.extra)] ==
            IF k = 0 THEN withReturn
            ELSE add_exit(E[k - 1], gen.extra[k], ExitId(gen.location_type, gen.extra[k]))
        populated == populate_location(w, E[Len(gen.extra)], gen)
    IN  IF ~gen.data.mapping
        THEN create_fallback_location(w, location_id, direction)
        ELSE [populated.w EXCEPT !.locations = DictSet(@, location_id, populated.loc)]

\* GameWorld._can_move(location, direction)
can_move(w, loc, direction) ==
    LET key == <<direction, "_locked">>
    IN  /\ ~(key \in DOMAIN loc.state_changes /\ loc.state_changes[key])
        /\ "paralyzed" \notin DOMAIN w.player.status_effects
        /\ "stunned" \notin DOMAIN w.player.status_effects

\* GameWorld._get_movement_restriction_message(location, direction)
get_movement_restriction_message(w, loc, direction) ==
    LET key == <<direction, "_locked">>
    IN  IF key \in DOMAIN loc.state_changes /\ loc.state_changes[key]
        THEN <<"The way ", direction, " is locked or blocked.">>
        ELSE IF "paralyzed" \in DOMAIN w.player.status_effects
        THEN <<"You are paralyzed and cannot move!">>
        ELSE IF "stunned" \in DOMAIN w.player.status_effects
        THEN <<"You are too stunned to move right now.">>
        ELSE <<"Something prevents you from going ", direction, ".">>

\* Variant of _handle_movement that reports a missing exit as a restriction.
handle_movement_restricted(w, direction_raw, loc_id, gen) ==
    LET direction == Lower(direction_raw)
        loc == w.locations[loc_id]
        new_location_id == loc.exits[direction]
        v == IF new_location_id \notin DOMAIN w.locations
             THEN generate_location(w, new_location_id, direction, gen)
             ELSE w
    IN  IF direction \notin DOMAIN loc.exits \/ ~can_move(w, loc, direction)
        THEN Out(w, get_movement_restriction_message(w, loc, direction), "exploration")
        ELSE Out([v EXCEPT !.player.current_location_id = new_location_id,
                           !.locations[new_location_id].visited = TRUE],
                 <<"description of ", new_location_id>>, "exploration")

\* Variant of _handle_movement that materializes the destination before it
\* tests the movement restrictions.
handle_movement_eager(w, direction_raw, loc_id, gen) ==
    LET direction == Lower(direction_raw)
        loc == w.locations[loc_id]
        new_location_id == loc.exits[direction]
        v == IF new_location_id \notin DOMAIN w.locations
             THEN generate_location(w, new_location_id, direction, gen)
             ELSE w
    IN  IF direction \notin DOMAIN loc.exits
        THEN Out(w, <<"You cannot go ", direction, " from here.">>, "exploration")
        ELSE IF ~can_move(w, loc, direction)
        THEN Out(v, get_movement_restriction_message(w, loc, direction), "exploration")
        ELSE With([v EXCEPT !.player.current_location_id = new_location_id,
                            !.locations[new_location_id].visited = TRUE],
                  LAMBDA moved :
                     IF new_location_id \notin DOMAIN v.locations
                     THEN Raised([v EXCEPT !.player.current_location_id = new_location_id])
                     ELSE IF moved.locations[new_location_id].description = "null"
                     THEN Raised(moved)
                     ELSE Out(moved, <<"description of ", new_location_id>>, "exploration"))

\* GameWorld._handle_movement(direction, location)
handle_movement(w, direction_raw, loc_id, gen) ==
    LET direction == Lower(direction_raw)
        loc == w.locations[loc_id]
        new_location_id == loc.exits[direction]
        v == IF new_location_id \notin DOMAIN w.locations
             THEN generate_location(w, new_location_id, direction, gen)
             ELSE w
    IN  IF direction \notin DOMAIN loc.exits
        THEN Out(w, <<"You cannot go ", direction, " from here.">>, "exploration")
        ELSE IF ~can_move(w, loc, direction)
        THEN Out(w, get_movement_restriction_message(w, loc, direction), "exploration")
        ELSE With([v EXCEPT !.player.current_location_id = new_location_id,
                            !.locations[new_location_id].visited = TRUE],
                  LAMBDA moved :
                     IF new_location_id \notin DOMAIN v.locations
                     THEN Raised([v EXCEPT !.player.current_location_id = new_location_id])
                     ELSE IF moved.locations[new_location_id].description = "null"
                     THEN Raised(moved)
                     ELSE Out(moved, <<"description of ", new_location_id>>, "exploration"))

\* NPC.attack: int(base_damage * variation), doubled before the variation on
\* a critical hit.  variation is the draw of random.uniform(0.8, 1.2) in
\* hundredths, crit says whether random.random() < 0.1.
NPC_attack(n, variation, crit) ==
    IF crit THEN (n.attack_power * 2 * variation) \div 100
    ELSE (n.attack_power * variation) \div 100

\* Variant of the defeat branch that grants the XP reward twice.
EnemyDefeated_double_xp(w, npc_id) ==
    LET x == add_xp(w.player, calculate_xp_reward(w.npcs[npc_id]))
        y == add_xp(x.player, calculate_xp_reward(w.npcs[npc_id]))
    IN  [w EXCEPT !.player = y.player,
                  !.current_state.combat_active = FALSE,
                  !.current_state.current_enemy = None]

\* Variant of the end of combat that leaves the defeated enemy bound.
EnemyDefeated_keep_enemy(w, npc_id) ==
    LET x == add_xp(w.player, calculate_xp_reward(w.npcs[npc_id]))
    IN  [w EXCEPT !.player = x.player,
                  !.current_state.combat_active = FALSE]

\* The XP grant and the end of combat when the enemy is defeated.
EnemyDefeated(w, npc_id) ==
    LET x == add_xp(w.player, calculate_xp_reward(w.npcs[npc_id]))
    IN  [w EXCEPT !.player = x.player,
                  !.current_state.combat_active = FALSE,
                  !.current_state.current_enemy = None]

\* Variant of _initiate_combat that returns after the opening strike, without
\* the enemy's counter-attack.
initiate_combat_nocounter(w, target_name, loc_id, d) ==
    LET npc_id == get_npc(w.locations[loc_id], target_name, w.npcs)
        bound == [w EXCEPT !.current_state.combat_active = TRUE,
                           !.current_state.current_enemy = npc_id]
        damage == Player_attack(w.player, d.roll)
        hit == NPC_take_damage(w.npcs[npc_id], damage)
        struck == [bound EXCEPT !.npcs[npc_id] = hit.npc]
    IN  IF target_name = <<>>
        THEN Out(w, <<"What do you want to attack?">>, "exploration")
        ELSE IF npc_id = None
        THEN Out(w, <<"You don't see ", target_name, " here to attack.">>, "exploration")
        ELSE IF hit.npc.is_defeated
        THEN Out(EnemyDefeated(struck, npc_id),
                 <<"Combat begins", "You strike", "has been defeated!">>, "exploration")
        ELSE Out(struck, <<"Combat begins", "You strike", "Available combat commands:">>,
                 "combat")

\* GameWorld._initiate_combat(target_name, location); d holds the draws
\* (d.roll the player's die, d.variation and d.crit the enemy's attack).
initiate_combat(w, target_name, loc_id, d) ==
    LET npc_id == get_npc(w.locations[loc_id], target_name, w.npcs)
        bound == [w EXCEPT !.current_state.combat_active = TRUE,
                           !.current_state.current_enemy = npc_id]
        damage == Player_attack(w.player, d.roll)
        hit == NPC_take_damage(w.npcs[npc_id], damage)
        struck == [bound EXCEPT !.npcs[npc_id] = hit.npc]
        enemy_damage == NPC_attack(hit.npc, d.variation, d.crit)
        countered == [struck EXCEPT !.player = Player_take_damage(@, enemy_damage).player]
    IN  IF target_name = <<>>
        THEN Out(w, <<"What do you want to attack?">>, "exploration")
        ELSE IF npc_id = None
        THEN Out(w, <<"You don't see ", target_name, " here to attack.">>, "exploration")
        ELSE IF hit.npc.is_defeated
        THEN Out(EnemyDefeated(struck, npc_id),
                 <<"Combat begins", "You strike", "has been defeated!">>, "exploration")
        ELSE IF countered.player.hp <= 0
        THEN [w |-> countered,
              result |-> Result(<<"Combat begins", "You strike", "counter-attacks",
                                  "You have been defeated!">>, "game_over"),
              enemy_attacked |-> TRUE, raised |-> FALSE]
        ELSE [w |-> countered,
              result |-> Result(<<"Combat begins", "You strike", "counter-attacks",
                                  "Available combat commands:">>, "combat"),
              enemy_attacked |-> TRUE, raised |-> FALSE]

\* The except branch of _handle_combat_action.
CombatError(w) ==
    Out(w, <<"Something went wrong during combat.">>, "exploration")

\* Variant of the enemy turn that subtracts the player's defense before it
\* halves the damage of a defended attack.
EnemyTurn_defense_first(w, enemy_id, d, text) ==
    LET raw == NPC_attack(w.npcs[enemy_id], d.variation, d.crit)
        reduced == Max(1, raw - w.player.defense)
        loss == IF "defending" \in DOMAIN w.player.status_effects
                THEN Max(1, reduced \div 2) ELSE reduced
        v == [w EXCEPT !.player.hp = Max(0, @ - loss)]
    IN  IF v.player.hp <= 0
        THEN [w |-> v,
              result |-> Result(text \o <<"attacks", "You have been defeated!">>, "game_over"),
              enemy_attacked |-> TRUE, raised |-> FALSE]
        ELSE [w |-> v,
              result |-> Result(text \o <<"attacks", "Available combat commands:">>, "combat"),
              enemy_attacked |-> TRUE, raised |-> FALSE]

\* The enemy turn of _handle_combat_action (reached with enemy_attack bound).
EnemyTurn(w, enemy_id, d, text) ==
    LET raw == NPC_attack(w.npcs[enemy_id], d.variation, d.crit)
        damage == IF "defending" \in DOMAIN w.player.status_effects
                  THEN Max(1, raw \div 2) ELSE raw
        v == [w EXCEPT !.player = Player_take_damage(@, damage).player]
    IN  IF v.player.hp <= 0
        THEN [w |-> v,
              result |-> Result(text \o <<"attacks", "You have been defeated!">>, "game_over"),
              enemy_attacked |-> TRUE, raised |-> FALSE]
        ELSE [w |-> v,
              result |-> Result(text \o <<"attacks", "Available combat commands:">>, "combat"),
              enemy_attacked |-> TRUE, raised |-> FALSE]

\* Variant of the use loop in which equipping costs the turn: the enemy
\* attacks after the equipment is switched.
RECURSIVE CombatUseLoop_equip_turn(_, _, _, _, _, _)
CombatUseLoop_equip_turn(w, enemy_id, item_name, i, used, d) ==
    IF i > Len(w.player.inventory)
    THEN IF used THEN EnemyTurn(w, enemy_id, d, <<"You use">>) ELSE Raised(w)
    ELSE LET id == w.player.inventory[i]
             item == w.items[id]
         IN  IF Lower(item.name) = Lower(item_name)
             THEN IF item.item_type \in {"weapon", "armor"}
                  THEN LET e == equip_item(w.player, id, w.items)
                       IN  EnemyTurn([w EXCEPT !.player = e.player], enemy_id, d, e.message)
                  ELSE LET r == Item_use(item, w.player)
                       IN  IF r.success
                           THEN CombatUseLoop_equip_turn(
                                    [w EXCEPT !.player = remove_item(r.player, id),
                                              !.items[id] = r.item],
                                    enemy_id, item_name, i + 1, TRUE, d)
                           ELSE CombatUseLoop_equip_turn([w EXCEPT !.player = r.player],
                                                         enemy_id, item_name, i + 1, used, d)
             ELSE CombatUseLoop_equip_turn(w, enemy_id, item_name, i + 1, used, d)

\* The loop "for item in self.player.inventory" of the use branch, from index
\* i on: Python reads the list by position while remove_item shrinks it.  used
\* says whether enemy_attack has been bound by a successful consumable.
RECURSIVE CombatUseLoop(_, _, _, _, _, _)
CombatUseLoop(w, enemy_id, item_name, i, used, d) ==
    IF i > Len(w.player.inventory)
    THEN IF used THEN EnemyTurn(w, enemy_id, d, <<"You use">>) ELSE Raised(w)
    ELSE LET id == w.player.inventory[i]
             item == w.items[id]
         IN  IF Lower(item.name) = Lower(item_name)
             THEN IF item.item_type \in {"weapon", "armor"}
                  THEN LET e == equip_item(w.player, id, w.items)
                       IN  Out([w EXCEPT !.player = e.player], e.message, "combat")
                  ELSE LET r == Item_use(item, w.player)
                       IN  IF r.success
                           THEN CombatUseLoop([w EXCEPT !.player = remove_item(r.player, id),
                                                        !.items[id] = r.item],
                                              enemy_id, item_name, i + 1, TRUE, d)
                           ELSE CombatUseLoop([w EXCEPT !.player = r.player],
                                              enemy_id, item_name, i + 1, used, d)
             ELSE CombatUseLoop(w, enemy_id, item_name, i + 1, used, d)

\* Variant of the retreat test with the comparison reversed.
RetreatSucceeds_ge(draw) == draw >= 50

\* random.random() < 0.5 for a draw in hundredths.
RetreatSucceeds(draw) == draw < 50

\* Variant of the try block of _handle_combat_action whose last branch answers
\* an invalid command without the enemy turn.
handle_combat_action_free_turn(w, command, d) ==
    LET enemy_id == w.current_state.current_enemy
    IN  IF enemy_id = None
        THEN Out([w EXCEPT !.current_state.combat_active = FALSE],
                 <<"No enemy to fight.">>, "exploration")
        ELSE IF StartsWith(command, s_use)
        THEN CombatUseLoop(w, enemy_id, Strip(From(command, 4)), 1, FALSE, d)
        ELSE IF command = s_attack
        THEN LET damage == Player_attack(w.player, d.roll)
                 hit == NPC_take_damage(w.npcs[enemy_id], damage)
                 struck == [w EXCEPT !.npcs[enemy_id] = hit.npc]
             IN  IF hit.npc.is_defeated
                 THEN Out(EnemyDefeated(struck, enemy_id),
                          <<"You strike", "has been defeated!">>, "exploration")
                 ELSE Raised(struck)
        ELSE IF command = s_defend
        THEN EnemyTurn([w EXCEPT !.player.status_effects = DictSet(@, "defending", 1)],
                       enemy_id, d, <<"You take a defensive stance!">>)
        ELSE IF command = s_retreat
        THEN IF RetreatSucceeds(d.retreat)
             THEN Out([w EXCEPT !.current_state.combat_active = FALSE,
                                !.current_state.current_enemy = None],
                      <<"You successfully retreat from combat!">>, "exploration")
             ELSE EnemyTurn(w, enemy_id, d, <<"You fail to retreat!">>)
        ELSE Out(w, <<"Invalid combat command!">>, "combat")

\* The body of the try block of _handle_combat_action: the branches that end
\* without binding enemy_attack raise UnboundLocalError at "if enemy_attack".
handle_combat_action_try(w, command, d) ==
    LET enemy_id == w.current_state.current_enemy
    IN  IF enemy_id = None
        THEN Out([w EXCEPT !.current_state.combat_active = FALSE],
                 <<"No enemy to fight.">>, "exploration")
        ELSE IF StartsWith(command, s_use)
        THEN CombatUseLoop(w, enemy_id, Strip(From(command, 4)), 1, FALSE, d)
        ELSE IF command = s_attack
        THEN LET damage == Player_attack(w.player, d.roll)
                 hit == NPC_take_damage(w.npcs[enemy_id], damage)
                 struck == [w EXCEPT !.npcs[enemy_id] = hit.npc]
             IN  IF hit.npc.is_defeated
                 THEN Out(EnemyDefeated(struck, enemy_id),
                          <<"You strike", "has been defeated!">>, "exploration")
                 ELSE Raised(struck)
        ELSE IF command = s_defend
        THEN EnemyTurn([w EXCEPT !.player.status_effects = DictSet(@, "defending", 1)],
                       enemy_id, d, <<"You take a defensive stance!">>)
        ELSE IF command = s_retreat
        THEN IF RetreatSucceeds(d.retreat)
             THEN Out([w EXCEPT !.current_state.combat_active = FALSE,
                                !.current_state.current_enemy = None],
                      <<"You successfully retreat from combat!">>, "exploration")
             ELSE EnemyTurn(w, enemy_id, d, <<"You fail to retreat!">>)
        ELSE EnemyTurn(w, enemy_id, d, <<"Invalid combat command!">>)

\* Variant of _handle_combat_action without the except branch.
handle_combat_action_uncaught(w, command, d) ==
    handle_combat_action_try(w, command, d)

\* GameWorld._handle_combat_action(command)
handle_combat_action(w, command, d) ==
    With(handle_combat_action_try(w, command, d),
         LAMBDA out : Caught(out, CombatError(out.w)))

\* Location.get_item(item_name): the first visible, untaken item of that name.
get_item(loc, item_name, its) ==
    LET Match(id) == Lower(its[id].name) = Lower(item_name) /\ ~its[id].is_taken
        k == FirstIdx(loc.items, Match)
    IN  IF item_name = <<>> \/ k = 0 THEN None ELSE loc.items[k]

\* GameWorld._handle_examine(target, location); the examine_response envelopes
\* of the model carry no secrets.
handle_examine(w, target_raw, loc_id) ==
    LET loc == w.locations[loc_id]
        target == RemovePrefixes(Strip(Lower(target_raw)),
                                 <<SearchPrefixes[2], SearchPrefixes[3],
                                   SearchPrefixes[4], SearchPrefixes[5]>>)
        Match(feature) == FeatureMatch(target, feature)
    IN  IF target_raw = <<>> \/ Lower(target_raw) = <<"a", "r", "o", "u", "n", "d">>
        THEN IF loc.description = "null"
             THEN Caught(Raised(w),
                         Out(w, <<"You try to examine ",
                                  IF target_raw = <<>> THEN <<"the area">> ELSE target_raw,
                                  " but something distracts you.">>, "exploration"))
             ELSE Out(w, <<"description of ", loc_id>>, "exploration")
        ELSE IF get_item(loc, target, w.items) # None
        THEN Out(w, <<"item examination: ", get_item(loc, target, w.items)>>, "exploration")
        ELSE IF get_npc(loc, target, w.npcs) # None
        THEN Out(w, <<"You observe ", get_npc(loc, target, w.npcs)>>, "exploration")
        ELSE IF FirstIdx(loc.features, Match) # 0
        THEN Out(w, <<"generated: ", "examine_response">>, "exploration")
        ELSE Out(w, <<"You don't see ", target, " here to examine.">>, "exploration")

\* GameWorld._handle_dialog(target, location); dialog_response is what the
\* content generator returned: a "mapping" or another value, on which
\* dialog_result.get raises.
handle_dialog(w, target, loc_id, dialog_response) ==
    IF target = <<>>
    THEN Out(w, <<"Who do you want to talk to?">>, "exploration")
    ELSE IF get_npc(w.locations[loc_id], target, w.npcs) = None
    THEN Out(w, <<"You don't see ", target, " here to talk to.">>, "exploration")
    ELSE IF dialog_response # "mapping"
    THEN Raised(w)
    ELSE Out(w, <<"generated: ", "dialog_response">>, "dialog")

\* GameWorld._generate_action_response(command, location); action_response is
\* the envelope of the content generator.
generate_action_response(w, command, loc_id, action_response) ==
    LET changes == action_response.location_changes
        F[k \in 0..Len(changes)] ==
            IF k = 0 THEN w.locations[loc_id].state_changes
            ELSE DictSet(F[k - 1], changes[k].change, changes[k].value)
    IN  Out([w EXCEPT !.locations[loc_id].state_changes = F[Len(changes)]],
            <<"generated: ", action_response.description>>,
            action_response.next_situation)

\* The body of the try block of handle_player_action.
handle_player_action_try(w, command_raw, d) ==
    LET command == Lower(command_raw)
        loc_id == w.player.current_location_id
        parts == SplitFirst(command)
        argument == IF Len(parts) > 1 THEN parts[2] ELSE <<>>
    IN  IF loc_id \notin DOMAIN w.locations
        THEN Out(w, <<"Error: Location not found">>, "exploration")
        ELSE IF StartsWith(command, s_attack)
        THEN initiate_combat(w, Strip(From(command, 7)), loc_id, d)
        ELSE IF StartsWith(command, s_move)
        THEN handle_movement(w, argument, loc_id, d.gen)
        ELSE IF StartsWith(command, s_take)
        THEN handle_item_take(w, argument, loc_id)
        ELSE IF StartsWith(command, s_use)
        THEN handle_item_use(w, argument, loc_id)
        ELSE IF command = s_inventory
        THEN Out(w, <<"Your inventory:", w.player.inventory>>, "exploration")
        ELSE IF StartsWith(command, s_examine) \/ StartsWith(command, s_look)
        THEN handle_examine(w, argument, loc_id)
        ELSE IF StartsWith(command, s_search)
        THEN handle_search(w, argument, loc_id, d.search)
        ELSE IF StartsWith(command, s_talk) \/ StartsWith(command, s_speak)
        THEN handle_dialog(w, argument, loc_id, d.dialog)
        ELSE generate_action_response(w, command, loc_id, d.action)

\* The except branch of handle_player_action.
ActionError(w) ==
    Out(w, <<"Something went wrong with that action.">>, "exploration")

\* GameWorld.handle_player_action(action) for action['command'] = command_raw.
handle_player_action(w, command_raw, d) ==
    With(handle_player_action_try(w, command_raw, d),
         LAMBDA out : Caught(out, ActionError(out.w)))

\* GameApp.process_command(command) of main.py: the command goes to the combat
\* handler when combat_state is set and to handle_player_action otherwise;
\* combat_state is then set from the result.
process_command(w, cs, command, d) ==
    With(IF cs THEN handle_combat_action(w, command, d)
         ELSE handle_player_action(w, Lower(command), d),
         LAMBDA out :
            [w |-> out.w, result |-> out.result, enemy_attacked |-> out.enemy_attacked,
             raised |-> out.raised,
             combat_state |-> (out.result.next_situation = "combat")])

----------------------------------------------------------------------------
(* The starting area (GameWorld.generate_starting_location and             *)
(* GameApp.initialize_game_world).                                         *)

f_trees ==
    <<"A", "n", "c", "i", "e", "n", "t", " ", "g", "u", "a", "r", "d", "i", "a", "n", " ", "t",
      "r", "e", "e", "s">>
f_stream ==
    <<"C", "r", "y", "s", "t", "a", "l", "-", "c", "l", "e", "a", "r", " ", "s", "t", "r", "e",
      "a", "m">>
f_wildflowers ==
    <<"B", "l", "o", "o", "m", "i", "n", "g", " ", "w", "i", "l", "d", "f", "l", "o", "w", "e",
      "r", "s">>
f_markers ==
    <<"M", "y", "s", "t", "e", "r", "i", "o", "u", "s", " ", "s", "t", "o", "n", "e", " ", "m",
      "a", "r", "k", "e", "r", "s">>
f_sunlight ==
    <<"D", "a", "p", "p", "l", "e", "d", " ", "s", "u", "n", "l", "i", "g", "h", "t", " ", "p",
      "a", "t", "t", "e", "r", "n", "s">>
t_peaceful ==
    <<"p", "e", "a", "c", "e", "f", "u", "l", " ", "s", "a", "n", "c", "t", "u", "a", "r", "y">>

StartingArea == <<"starting_area">>

\* The starting location: the starter items of _add_starter_items are items 1
\* and 2, the searchable features are those of _add_searchable_features.
starting_location ==
    LET base == NewLocation(t_peaceful, <<f_trees, f_stream, f_wildflowers, f_markers, f_sunlight>>)
        withItems == [base EXCEPT !.items = <<1, 2>>]
        withFeatures == add_searchable_feature(
                            add_searchable_feature(
                                add_searchable_feature(withItems, f_trees), f_stream), f_markers)
    IN  add_exit(add_exit(withFeatures, s_north, <<"forest_path">>), s_east, <<"river_crossing">>)

\* health_potion and wooden_sword of _add_starter_items.
starter_items == <<create_healing_potion(n_HealthPotion, 20), create_weapon(n_WoodenSword, 2)>>

----------------------------------------------------------------------------
(* The inputs of a session: the commands typed, the envelopes returned by  *)
(* the content generator and the random draws, each from a small set.      *)

MaxLocations == 2   \* materialized locations
MaxItems == 3       \* Item objects created
MaxHpDeficit == 20      \* commands are explored while player.hp > -MaxHpDeficit

c_move_north == <<"m", "o", "v", "e", " ", "n", "o", "r", "t", "h">>
c_move_south == <<"m", "o", "v", "e", " ", "s", "o", "u", "t", "h">>
c_move_east == <<"m", "o", "v", "e", " ", "e", "a", "s", "t">>
c_move_west == <<"m", "o", "v", "e", " ", "w", "e", "s", "t">>
c_take_potion == <<"t", "a", "k", "e", " ", "P", "o", "t", "i", "o", "n">>
c_take_sword == <<"t", "a", "k", "e", " ", "s", "w", "o", "r", "d">>
c_use_health == <<"u", "s", "e", " ", "h", "e", "a", "l", "t", "h", " ", "p", "o", "t", "i", "o", "n">>
c_use_sword == <<"u", "s", "e", " ", "W", "o", "o", "d", "e", "n", " ", "S", "w", "o", "r", "d">>
c_use_potion == <<"u", "s", "e", " ", "P", "o", "t", "i", "o", "n">>
c_search == <<"s", "e", "a", "r", "c", "h">>
c_search_shelf == <<"s", "e", "a", "r", "c", "h", " ", "t", "h", "e", " ", "s", "h", "e", "l", "f">>
c_attack_goblin == <<"a", "t", "t", "a", "c", "k", " ", "g", "o", "b", "l", "i", "n">>
c_look == <<"l", "o", "o", "k">>
c_talk_goblin == <<"t", "a", "l", "k", " ", "g", "o", "b", "l", "i", "n">>
c_dance == <<"d", "a", "n", "c", "e">>

n_Goblin == <<"G", "o", "b", "l", "i", "n">>
n_ShortSword == <<"S", "h", "o", "r", "t", " ", "S", "w", "o", "r", "d">>
n_Potion == <<"P", "o", "t", "i", "o", "n">>
f_shelf == <<"H", "e", "a", "l", "t", "h", " ", "p", "o", "t", "i", "o", "n", " ", "s", "h", "e", "l", "f">>
f_path == <<"p", "a", "t", "h">>
t_dark == <<"D", "a", "r", "k", " ", "h", "o", "l", "l", "o", "w">>
t_generic == <<"g", "e", "n", "e", "r", "i", "c">>

MoveCommands == {c_move_north, c_move_south, c_move_east, c_move_west}
TakeCommands == {c_take_potion, c_take_sword}
UseCommands == {c_use_health, c_use_sword, c_use_potion}
SearchCommands == {c_search, c_search_shelf}
OtherCommands == {c_dance}

\* search_response envelopes: no discovery, an item.
SearchResponses ==
    { [description |-> "nothing", discoveries |-> <<>>],
      [description |-> "item",
       discoveries |-> <<[type |-> "item", name |-> n_Potion, item_type |-> s_potion,
                          effect_value |-> -60]>>] }

\* action_response envelopes.
ActionResponses ==
    { [description |-> "plain", next_situation |-> "exploration", location_changes |-> <<>>],
      [description |-> "fight", next_situation |-> "combat", location_changes |-> <<>>] }

Variations == {100}             \* random.uniform(0.8, 1.2), in hundredths
RollSample == {1, 8}            \* base die rolls of the player
RetreatDraws == {25, 50, 75}    \* random.random(), in hundredths

\* Variant of the draw of additional exits that does not exclude the direction
\* of the return exit.
ExtraExits_any(direction) ==
    {<<a>> : a \in Cardinal} \cup {ex \in Cardinal \X Cardinal : ex[1] # ex[2]}

\* The sequences of one or two distinct directions drawn as additional exits.
ExtraExits(direction) ==
    LET possible == Cardinal \ {opposite_directions(direction)}
    IN  {<<a>> : a \in possible} \cup
        {ex \in possible \X possible : ex[1] # ex[2]}

\* A location_description envelope: a mapping whose description is a string.
GenData(theme, features) ==
    [mapping |-> TRUE, description |-> "text", theme |-> theme, features |-> features]

NoGen ==
    [ location_type |-> "wilderness", extra |-> <<>>,
      data |-> GenData(t_generic, <<f_path>>),
      population |-> [empty |-> TRUE, npcs |-> <<>>, items |-> <<>>],
      item_hidden |-> <<>>, searchable |-> {}, potion_hidden |-> FALSE ]

\* The location types the model draws, among those location_types allows.
TypeSample == {"forest"}

\* The additional exits the model draws, among those ExtraExits allows.
ExtraSample == {<<s_east>>}

\* What the content generator and the random source deliver for one lazy
\* generation: the envelopes (data, population) and the draws of
\* _populate_location (item_hidden per generated item, the features made
\* searchable, potion_hidden).
GenScenarios ==
    { [ data |-> GenData(t_dark, <<f_shelf>>),
        population |-> [empty |-> FALSE, npcs |-> <<[name |-> n_Goblin]>>, items |-> <<>>],
        item_hidden |-> <<>>, searchable |-> {f_shelf}, potion_hidden |-> TRUE ],
      [ data |-> GenData(t_dark, <<f_shelf>>),
        population |-> [empty |-> TRUE, npcs |-> <<>>, items |-> <<>>],
        item_hidden |-> <<>>, searchable |-> {}, potion_hidden |-> FALSE ],
      [ data |-> GenData(t_generic, <<f_path>>),
        population |-> [empty |-> FALSE, npcs |-> <<[name |-> n_Goblin]>>,
                        items |-> <<[name |-> n_ShortSword, type |-> s_weapon,
                                     effect_value |-> 3]>>],
        item_hidden |-> <<FALSE>>, searchable |-> {}, potion_hidden |-> FALSE ] }

\* The draws and envelopes of one lazy generation in the given direction, for
\* the given scenarios.
GensOf(direction, scenarios) ==
    { [ location_type |-> lt, extra |-> ex, data |-> g.data, population |-> g.population,
        item_hidden |-> g.item_hidden, searchable |-> g.searchable,
        potion_hidden |-> g.potion_hidden ] :
        lt \in location_types(direction) \cap TypeSample,
        ex \in ExtraExits(direction) \cap ExtraSample,
        g \in scenarios }

Gens(direction) == GensOf(direction, GenScenarios)

\* Generations that go wrong: a location_description value that is no mapping
\* (location_data.get raises inside _generate_location), and an envelope whose
\* description is null.
FailingScenarios ==
    { [ data |-> [GenData(t_generic, <<f_path>>) EXCEPT !.mapping = FALSE],
        population |-> [empty |-> FALSE, npcs |-> <<[name |-> n_Goblin]>>, items |-> <<>>],
        item_hidden |-> <<>>, searchable |-> {}, potion_hidden |-> FALSE ],
      [ data |-> [GenData(t_generic, <<f_path>>) EXCEPT !.description = "null"],
        population |-> [empty |-> FALSE, npcs |-> <<[name |-> n_Goblin]>>, items |-> <<>>],
        item_hidden |-> <<>>, searchable |-> {}, potion_hidden |-> FALSE ] }

\* What generate_content returned for dialog_response.
DialogResponses == {"mapping", "array"}

NoDraw ==
    [ roll |-> 1, variation |-> 100, crit |-> FALSE, retreat |-> 0, gen |-> NoGen,
      dialog |-> "mapping",
      search |-> [description |-> "nothing", discoveries |-> <<>>],
      action |-> [description |-> "plain", next_situation |-> "exploration",
                  location_changes |-> <<>>] ]

----------------------------------------------------------------------------
(* The session: one action per kind of command.                            *)

Init ==
    /\ player = [NewPlayer EXCEPT !.current_location_id = StartingArea]
    /\ npcs = <<>>
    /\ items = starter_items
    /\ locations = DictSet(<<>>, StartingArea, starting_location)
    /\ current_state = [combat_active |-> FALSE, current_enemy |-> None,
                        discovered_secrets |-> {}]
    /\ combat_state = FALSE
    /\ result = [message |-> <<>>, next_situation |-> "exploration"]
    /\ generator = NewGenerator
    /\ session = NewSession
    /\ last = [op |-> "init"]

\* One command typed by the player, processed to completion, in a session
\* that materializes at most cap locations.
CommandWithin(cmd, d, cap) ==
    \E out \in {process_command(World, combat_state, cmd, d)} :
        /\ player.hp > -MaxHpDeficit
        /\ Len(out.w.items) <= MaxItems
        /\ Cardinality(DOMAIN out.w.locations) <= cap
        /\ player' = out.w.player
        /\ npcs' = out.w.npcs
        /\ items' = out.w.items
        /\ locations' = out.w.locations
        /\ current_state' = out.w.current_state
        /\ combat_state' = out.combat_state
        /\ result' = out.result
        /\ generator' = generator
        /\ session' = session
        /\ last' = [op |-> "command", cmd |-> cmd, in_combat |-> combat_state,
                    retreat |-> d.retreat, enemy_attacked |-> out.enemy_attacked,
                    raised |-> out.raised,
                    variation |-> IF out.enemy_attacked THEN d.variation ELSE 0,
                    crit |-> out.enemy_attacked /\ d.crit]

\* One command typed by the player, processed to completion.
Command(cmd, d) == CommandWithin(cmd, d, MaxLocations)

\* Whether "move <direction>" from the current location leads to a location
\* that is not materialized yet.
LeadsToNew(direction) ==
    LET loc == locations[player.current_location_id]
    IN  /\ direction \in DOMAIN loc.exits
        /\ loc.exits[direction] \notin DOMAIN locations

Direction(cmd) == SplitFirst(cmd)[2]

Move ==
    /\ ~combat_state
    /\ \E cmd \in MoveCommands :
         /\ ~LeadsToNew(Direction(cmd))
         /\ Command(cmd, NoDraw)

MoveNew ==
    /\ ~combat_state
    /\ \E cmd \in MoveCommands :
         /\ LeadsToNew(Direction(cmd))
         /\ \E gen \in Gens(Direction(cmd)) : Command(cmd, [NoDraw EXCEPT !.gen = gen])

Take ==
    /\ ~combat_state
    /\ \E cmd \in TakeCommands : Command(cmd, NoDraw)

Use ==
    /\ ~combat_state
    /\ \E cmd \in UseCommands : Command(cmd, NoDraw)

Search ==
    /\ ~combat_state
    /\ \E cmd \in SearchCommands, sr \in SearchResponses :
         Command(cmd, [NoDraw EXCEPT !.search = sr])

Look ==
    /\ ~combat_state
    /\ Command(c_look, NoDraw)

Attack ==
    /\ ~combat_state
    /\ \E roll \in RollSample, variation \in Variations, crit \in BOOLEAN :
         Command(c_attack_goblin,
                 [NoDraw EXCEPT !.roll = roll, !.variation = variation, !.crit = crit])

Other ==
    /\ ~combat_state
    /\ \E cmd \in OtherCommands, ar \in ActionResponses :
         Command(cmd, [NoDraw EXCEPT !.action = ar])

CombatAttack ==
    /\ combat_state
    /\ \E roll \in RollSample : Command(s_attack, [NoDraw EXCEPT !.roll = roll])

CombatDefend ==
    /\ combat_state
    /\ \E variation \in Variations, crit \in BOOLEAN :
         Command(s_defend, [NoDraw EXCEPT !.variation = variation, !.crit = crit])

CombatRetreat ==
    /\ combat_state
    /\ \E draw \in RetreatDraws, variation \in Variations, crit \in BOOLEAN :
         Command(s_retreat,
                 [NoDraw EXCEPT !.retreat = draw, !.variation = variation, !.crit = crit])

CombatUse ==
    /\ combat_state
    /\ \E cmd \in UseCommands, variation \in Variations, crit \in BOOLEAN :
         Command(cmd, [NoDraw EXCEPT !.variation = variation, !.crit = crit])

CombatInvalid ==
    /\ combat_state
    /\ \E cmd \in {c_dance}, variation \in Variations, crit \in BOOLEAN :
         Command(cmd, [NoDraw EXCEPT !.variation = variation, !.crit = crit])

\* A move into an unmaterialized location whose generation goes wrong.
MoveNewFailing ==
    /\ ~combat_state
    /\ \E cmd \in MoveCommands :
         /\ LeadsToNew(Direction(cmd))
         /\ \E gen \in GensOf(Direction(cmd), FailingScenarios) :
               Command(cmd, [NoDraw EXCEPT !.gen = gen])

Talk ==
    /\ ~combat_state
    /\ \E dr \in DialogResponses : Command(c_talk_goblin, [NoDraw EXCEPT !.dialog = dr])

\* Exploration: the commands typed outside combat that never start one.
Next ==
    \/ Move
    \/ MoveNew
    \/ Take
    \/ Use
    \/ Search
    \/ Look
    \/ Other

Spec == Init /\ [][Next]_vars

\* Combat: the way to an enemy, the opening attack and the combat commands.
CombatNext ==
    \/ MoveNew
    \/ Take
    \/ Attack
    \/ CombatAttack
    \/ CombatDefend
    \/ CombatRetreat
    \/ CombatUse
    \/ CombatInvalid

SpecCombat == Init /\ [][CombatNext]_vars

\* Errors: the commands whose handlers can raise, with the generations that
\* go wrong.
ErrorNext ==
    \/ Move
    \/ MoveNew
    \/ MoveNewFailing
    \/ Look
    \/ Talk
    \/ Attack
    \/ CombatAttack
    \/ CombatInvalid

SpecError == Init /\ [][ErrorNext]_vars

----------------------------------------------------------------------------
(* Properties of the exploration commands (checked under Spec).            *)

\* The places of the sequence seq, tagged tag, that hold the item id.
PlacesIn(seq, tag, id) == {<<tag, i>> : i \in {j \in 1..Len(seq) : seq[j] = id}}

\* Every place that holds the item id in the world w: the visible and the
\* hidden items of the locations and the inventory of the player.
Places(w, id) ==
    UNION { PlacesIn(w.locations[l].items, <<l, "visible">>, id)
            \cup PlacesIn(w.locations[l].hidden_items, <<l, "hidden">>, id) :
            l \in DOMAIN w.locations }
    \cup PlacesIn(w.player.inventory, <<<<"player">>, "inventory">>, id)

\* The containers that hold the item id in the world w.
Holders(w, id) == {place[1] : place \in Places(w, id)}

\* The last step was the command cmd typed outside combat.
Typed(cmd) == last.op = "command" /\ last.cmd = cmd /\ ~last.in_combat

\* C1 as stated: every item is in exactly one container (the visible or the
\* hidden items of a location, or the inventory), never in two and never in
\* none.
C1_ExactlyOneContainer ==
    \A id \in 1..Len(items) : Cardinality(Places(World, id)) = 1

\* C1: no item is ever in two containers at once, and an item leaves every
\* container only in the step of a use command that reports success, which
\* removes it from the inventory.
C1_NeverDuplicatedOrphanedOnlyByUse ==
    [][ /\ \A id \in 1..Len(items') : Cardinality(Places(World', id)) <= 1
        /\ \A id \in 1..Len(items) :
              (Places(World, id) # {} /\ Places(World', id) = {})
                  => /\ last'.cmd \in UseCommands
                     /\ id \in Range(player.inventory)
                     /\ result'.message[1] = "You use the " ]_vars

\* A taken item sits in the inventory alone, and a used one is in no container.
C1_Witness ==
    /\ \E id \in 1..Len(items) :
          Places(World, id) = {<<<<<<"player">>, "inventory">>, 1>>}
    /\ \E id \in 1..Len(items) : Places(World, id) = {} /\ items[id].is_used
    /\ \E id \in 1..Len(items) :
          items[id].name = n_Potion /\ Cardinality(Places(World, id)) = 1

\* C2 as stated: in every reachable state 0 <= hp <= max_hp.
C2_HpInRange == player.hp >= 0 /\ player.hp <= player.max_hp

\* C8: "move north" typed outside combat in a location without a north exit
\* answers exactly "You cannot go north from here." with next_situation
\* exploration and leaves the player where they are.
C8_NoNorthExit ==
    [][ ( /\ last'.op = "command" /\ last'.cmd = c_move_north /\ ~last'.in_combat
          /\ s_north \notin DOMAIN locations[player.current_location_id].exits )
        => /\ result'.message = <<"You cannot go ", s_north, " from here.">>
           /\ result'.next_situation = "exploration"
           /\ player'.current_location_id = player.current_location_id
           /\ locations' = locations ]_vars

\* "move north" was refused in a generated location that has no north exit.
C8_Witness ==
    /\ Typed(c_move_north)
    /\ player.current_location_id # StartingArea
    /\ s_north \notin DOMAIN locations[player.current_location_id].exits
    /\ result.message = <<"You cannot go ", s_north, " from here.">>

\* The visible, untaken items of the current location whose name is the
\* lower-cased name, in the world w.
Named(w, name) ==
    { id \in Range(w.locations[w.player.current_location_id].items) :
        ~w.items[id].is_taken /\ Lower(w.items[id].name) = Lower(name) }

\* C9 as stated: "take Potion" typed where a visible, untaken item of
\* that name (case-insensitively) lies moves that item from the visible items
\* to the end of the inventory, sets its is_taken flag and answers "You pick up
\* ..."; no other item changes container.
C9_TakeNamedItem ==
    [][ ( /\ last'.op = "command" /\ last'.cmd = c_take_potion /\ ~last'.in_combat
          /\ Named(World, n_Potion) # {} )
        => \E id \in Named(World, n_Potion) :
              /\ player'.inventory = Append(player.inventory, id)
              /\ id \notin Range(locations'[player.current_location_id].items)
              /\ items'[id].is_taken
              /\ result'.message[1] = "You pick up the "
              /\ \A other \in (1..Len(items)) \ {id} :
                    Holders(World', other) = Holders(World, other) ]_vars

----------------------------------------------------------------------------
(* Properties of the combat commands (checked under SpecCombat).           *)

\* C10 as stated: a retreat in combat whose draw is >= 0.5 ends combat:
\* combat_active false, current_enemy unbound, next_situation exploration, no
\* enemy attack and the player's hp unchanged.
C10_RetreatAtLeastHalf ==
    [][ ( /\ last'.op = "command" /\ last'.cmd = s_retreat /\ last'.in_combat
          /\ current_state.current_enemy # None
          /\ last'.retreat >= 50 )
        => /\ ~current_state'.combat_active
           /\ current_state'.current_enemy = None
           /\ result'.next_situation = "exploration"
           /\ ~last'.enemy_attacked
           /\ player'.hp = player.hp ]_vars

\* C10: a retreat in combat ends combat exactly when the draw is below 0.5:
\* then combat_active is false, current_enemy is unbound, next_situation is
\* exploration and no enemy attack is resolved (hp unchanged); with a draw of
\* 0.5 or more the retreat fails, the enemy's attack is resolved and the
\* combat goes on (or the player is defeated).
C10_RetreatBelowHalf ==
    [][ ( /\ last'.op = "command" /\ last'.cmd = s_retreat /\ last'.in_combat
          /\ current_state.current_enemy # None )
        => IF last'.retreat < 50
           THEN /\ ~current_state'.combat_active
                /\ current_state'.current_enemy = None
                /\ result'.next_situation = "exploration"
                /\ ~combat_state'
                /\ ~last'.enemy_attacked
                /\ player'.hp = player.hp
           ELSE /\ current_state'.combat_active
                /\ current_state'.current_enemy = current_state.current_enemy
                /\ result'.next_situation \in {"combat", "game_over"}
                /\ last'.enemy_attacked
                /\ player'.hp < player.hp ]_vars

\* A retreat with a draw below 0.5 has ended a combat against a live enemy.
C10_Witness ==
    /\ last.op = "command" /\ last.cmd = s_retreat /\ last.in_combat
    /\ last.retreat < 50
    /\ ~current_state.combat_active
    /\ current_state.current_enemy = None
    /\ result.next_situation = "exploration"
    /\ \E n \in 1..Len(npcs) : ~npcs[n].is_defeated

----------------------------------------------------------------------------
(* ai/generator.py and prompts/prompts.py: the content generator.  A JSON  *)
(* value is a record: its type, its members (fields, for an object) and    *)
(* the field names that Python's "in" finds in it (elems: the elements of  *)
(* an array, the substrings of a string).  A member is "given" (a value    *)
(* the backend wrote), "null", "text" or "empty_text" (the raw response),  *)
(* or "default" (a value written by the generator).  A call returns a      *)
(* record that tells whether it raised and, if not, its value.             *)

NoFields == [f \in {} |-> "null"]
JsonObject(fields) == [type |-> "object", fields |-> fields, elems |-> {}]
JsonOther(type, elems) == [type |-> type, fields |-> NoFields, elems |-> elems]
Return(value) == [raised |-> FALSE, value |-> value]
Raise == [raised |-> TRUE, value |-> JsonOther("null", {})]

\* The prompt kinds the core passes to generate_content.
PromptKinds ==
    { "location_description", "location_population", "search_response",
      "examine_response", "action_response", "dialog_response",
      "feature_interaction", "sublocation_generation" }

\* PromptManager.templates: the kinds that have a template.
Templates ==
    { "location_description", "location_population", "search_response",
      "examine_response", "action_response" }

\* The replacement fields of the template of a kind.
TemplateFields(prompt_type) ==
    CASE prompt_type = "location_description" ->
            {"type", "theme", "purpose", "player_level", "game_state"}
      [] prompt_type = "location_population" -> {"theme", "player_level", "type"}
      [] prompt_type = "search_response" ->
            {"area", "location", "player", "discovered_secrets"}
      [] prompt_type = "examine_response" ->
            {"target", "location", "player", "discovered_secrets"}
      [] prompt_type = "action_response" ->
            {"command", "location", "player", "game_state"}
      [] OTHER -> {}

\* The keys of the defaults of PromptManager._prepare_parameters.
ParameterDefaults ==
    { "type", "theme", "purpose", "player_level", "command", "action", "location",
      "player", "game_state", "area", "target", "discovered_secrets" }

\* PromptManager.format_prompt: the template of the kind filled in, or the
\* fallback template for an unknown kind and for any failure of the
\* interpolation (a parameter bag is the set of its keys and the keys whose
\* value cannot be formatted).
format_prompt(prompt_type, parameters) ==
    IF prompt_type \notin Templates
    THEN Return("fallback_template")
    ELSE LET formatted_params == ParameterDefaults \cup parameters.keys
         IN  IF /\ TemplateFields(prompt_type) \subseteq formatted_params
                /\ TemplateFields(prompt_type) \cap parameters.unformattable = {}
             THEN Return("formatted")
             ELSE Return("fallback_template")

\* validators[prompt_type]['required'] of _validate_response, in list order.
Required(prompt_type) ==
    CASE prompt_type = "location_description" -> <<"name", "description", "theme", "features">>
      [] prompt_type = "search_response" -> <<"description">>
      [] prompt_type = "examine_response" -> <<"description">>
      [] prompt_type = "action_response" -> <<"description">>
      [] OTHER -> <<>>

\* validators[prompt_type]['defaults'] of _validate_response, in dict order.
Defaults(prompt_type) ==
    CASE prompt_type = "location_description" ->
            <<"name", "description", "theme", "features", "atmosphere", "exits">>
      [] prompt_type = "search_response" -> <<"description", "discoveries">>
      [] prompt_type = "examine_response" -> <<"description", "features", "interactions">>
      [] prompt_type = "action_response" -> <<"description", "success", "next_situation">>
      [] OTHER -> <<>>

\* The kinds that have a validator.
Validated ==
    {"location_description", "search_response", "examine_response", "action_response"}

\* field in response: membership for an object, an array and a string, a
\* TypeError for the other JSON values.
Contains(response, field) ==
    CASE response.type = "object" -> Return(field \in DOMAIN response.fields)
      [] response.type \in {"array", "string"} -> Return(field \in response.elems)
      [] OTHER -> Raise

\* response[field] = value: an assignment for an object, a TypeError for
\* every other JSON value.
SetItem(response, field, value) ==
    IF response.type = "object"
    THEN Return(JsonObject([f \in DOMAIN response.fields \cup {field} |->
                               IF f = field THEN value ELSE response.fields[f]]))
    ELSE Raise

\* for field in fields: if field not in response: response[field] = default
RECURSIVE FillMissing(_, _, _)
FillMissing(response, fields, i) ==
    IF i > Len(fields)
    THEN Return(response)
    ELSE LET c == Contains(response, fields[i])
         IN  IF c.raised THEN Raise
             ELSE IF c.value THEN FillMissing(response, fields, i + 1)
             ELSE LET s == SetItem(response, fields[i], "default")
                  IN  IF s.raised THEN Raise
                      ELSE FillMissing(s.value, fields, i + 1)

\* AIGenerator._validate_response
validate_response(response, prompt_type) ==
    IF prompt_type \in Validated
    THEN LET req == FillMissing(response, Required(prompt_type), 1)
         IN  IF req.raised THEN Raise
             ELSE FillMissing(req.value, Defaults(prompt_type), 1)
    ELSE Return(response)

\* An object whose description is the first member and whose other members
\* are written by the generator.
Envelope(description, others) ==
    JsonObject([f \in {"description"} \cup others |->
                   IF f = "description" THEN description ELSE "default"])

\* AIGenerator._format_non_json_response
format_non_json_response(text, prompt_type) ==
    CASE prompt_type = "location_description" ->
            Envelope(text, {"name", "theme", "features", "atmosphere", "exits"})
      [] prompt_type = "search_response" -> Envelope(text, {"discoveries"})
      [] prompt_type = "examine_response" -> Envelope(text, {"features", "interactions"})
      [] OTHER -> Envelope(text, {"success", "next_situation"})

\* AIGenerator._get_fallback_response
get_fallback_response(prompt_type) ==
    CASE prompt_type = "location_description" ->
            Envelope("default", {"name", "theme", "features", "atmosphere", "exits"})
      [] prompt_type = "search_response" -> Envelope("default", {"discoveries"})
      [] prompt_type = "examine_response" -> Envelope("default", {"features", "interactions"})
      [] OTHER -> Envelope("default", {"success", "next_situation"})

\* self.max_context_length
max_context_length == 10

\* The body of the try block of generate_content: the prompt, the backend
\* call, the history and the parsing.  history is len(self.context_history).
generate_content_try(prompt_type, parameters, backend, history) ==
    LET formatted_prompt == format_prompt(prompt_type, parameters)
        appended == Min(history + 1, max_context_length)
    IN  IF formatted_prompt.raised \/ backend.outcome = "exception"
        THEN [raised |-> TRUE, value |-> Raise.value, history |-> history]
        ELSE CASE backend.outcome = "no_content" ->
                    [raised |-> TRUE, value |-> Raise.value, history |-> appended]
               [] backend.outcome = "text" ->
                    [raised |-> FALSE,
                     value |-> format_non_json_response(backend.text, prompt_type),
                     history |-> appended]
               [] OTHER ->
                    LET v == validate_response(backend.json, prompt_type)
                    IN  [raised |-> v.raised, value |-> v.value, history |-> appended]

\* Variant of generate_content without the handler of the outer try.
generate_content_uncaught(prompt_type, parameters, backend, history) ==
    generate_content_try(prompt_type, parameters, backend, history)

\* AIGenerator.generate_content: any exception of the body is answered with
\* the fallback response of the kind.
generate_content(prompt_type, parameters, backend, history) ==
    LET r == generate_content_try(prompt_type, parameters, backend, history)
    IN  IF r.raised
        THEN [raised |-> FALSE, value |-> get_fallback_response(prompt_type),
              history |-> r.history]
        ELSE r

----------------------------------------------------------------------------
(* The content generator on its own: one call of generate_content per      *)
(* behaviour, for every prompt kind, parameter bag and backend outcome of  *)
(* the samples below.                                                      *)

\* The kinds of the calls: those of the core and one that nothing declares.
KindSample == PromptKinds \cup {"unknown_kind"}

\* Parameter bags: empty, well-formed, and one whose values cannot be
\* formatted.
ParameterBags ==
    { [keys |-> {}, unformattable |-> {}],
      [keys |-> {"type", "theme", "player_level"}, unformattable |-> {}],
      [keys |-> {"theme", "location", "command"},
       unformattable |-> {"theme", "location", "command"}] }

\* The member names a backend may write for a kind.
MemberNames(prompt_type) ==
    IF prompt_type \in Validated
    THEN {Defaults(prompt_type)[i] : i \in 1..Len(Defaults(prompt_type))} \cup {"secrets"}
    ELSE {"description", "items", "npcs"}

\* The JSON values a backend may answer for a kind: objects with any subset
\* of the member names, all given or all null, and values that are no object.
JsonValues(prompt_type) ==
    { JsonObject([f \in present |-> fill]) :
        present \in SUBSET MemberNames(prompt_type), fill \in {"given", "null"} }
    \cup { JsonOther("array", {}), JsonOther("array", MemberNames(prompt_type)),
           JsonOther("string", {}), JsonOther("string", MemberNames(prompt_type)),
           JsonOther("number", {}), JsonOther("null", {}) }

\* The outcomes of the backend call: an exception, a response without
\* content, a text that is no JSON, a JSON value.
Backends(prompt_type) ==
    { [outcome |-> "exception", text |-> "text", json |-> JsonOther("null", {})],
      [outcome |-> "no_content", text |-> "text", json |-> JsonOther("null", {})],
      [outcome |-> "text", text |-> "text", json |-> JsonOther("null", {})],
      [outcome |-> "text", text |-> "empty_text", json |-> JsonOther("null", {})] }
    \cup { [outcome |-> "json", text |-> "text", json |-> v] : v \in JsonValues(prompt_type) }

\* len(self.context_history) before the call.
HistorySample == {0, 9, 10}

GeneratorInit ==
    /\ player = NewPlayer
    /\ npcs = <<>>
    /\ UnitInitRest

\* One call of generate_content.
GenerateCall(kinds) ==
    /\ last.op = "init"
    /\ \E prompt_type \in kinds, parameters \in ParameterBags, history \in HistorySample :
         \E backend \in Backends(prompt_type) :
            With(generate_content(prompt_type, parameters, backend, history),
                 LAMBDA r :
                    last' = [op |-> "generate_content", prompt_type |-> prompt_type,
                             parameters |-> parameters, backend |-> backend,
                             history_before |-> history, raised |-> r.raised,
                             value |-> r.value, history |-> r.history])
    /\ UNCHANGED <<player, npcs, items, locations, current_state, combat_state, result, generator, session>>

\* A call for a kind that has a validator.
GenerateValidated == GenerateCall(Validated)

\* A call for a kind that has none.
GenerateOther == GenerateCall(KindSample \ Validated)

GeneratorNext ==
    \/ GenerateValidated
    \/ GenerateOther

SpecGenerator == GeneratorInit /\ [][GeneratorNext]_vars

----------------------------------------------------------------------------
(* Properties of the content generator (checked under SpecGenerator).      *)

\* C11: generate_content never raises to its caller: for every prompt kind,
\* parameter bag and backend outcome the call returns a value.
C11_NeverRaises ==
    last.op = "generate_content" => ~last.raised

\* A call whose validation raised inside (a JSON value that is no object,
\* for a kind that has a validator) and that was answered with the fallback.
C11_Witness ==
    /\ last.op = "generate_content"
    /\ last.backend.outcome = "json"
    /\ validate_response(last.backend.json, last.prompt_type).raised
    /\ ~last.raised
    /\ last.value = get_fallback_response(last.prompt_type)

\* A member that holds a value: one the backend wrote, the raw text, or a
\* default of the generator.
Populated(member) == member \in {"given", "text", "default"}

\* C12 as stated: for every prompt kind of the core and every backend
\* outcome the returned value is a mapping that holds every required field
\* of the kind, each populated.
C12_RequiredFieldsPopulated ==
    (last.op = "generate_content" /\ last.prompt_type \in PromptKinds) =>
        /\ last.value.type = "object"
        /\ \A i \in 1..Len(Required(last.prompt_type)) :
              /\ Required(last.prompt_type)[i] \in DOMAIN last.value.fields
              /\ Populated(last.value.fields[Required(last.prompt_type)[i]])

----------------------------------------------------------------------------
(* Properties of the error paths (checked under SpecError).                *)

C14_ExceptionsConverted ==
    last.op = "command" =>
        /\ DOMAIN result = {"message", "next_situation"}
        /\ result.next_situation \in {"exploration", "combat", "game_over", "dialog"}
        /\ last.raised =>
              /\ result.next_situation = "exploration"
              /\ result.message[1] \in { "Something went wrong with that action.",
                                         "Something went wrong during combat.",
                                         "You try to examine " }

\* An attack typed in combat raised inside the combat handler and was answered
\* with the generic message.
C14_Witness ==
    /\ last.op = "command" /\ last.in_combat /\ last.cmd = s_attack
    /\ last.raised
    /\ result = Result(<<"Something went wrong during combat.">>, "exploration")

----------------------------------------------------------------------------
(* utils/dice.py: DiceRoller.roll.  The roll string is a sequence of       *)
(* characters, split and parsed as the code does; the draws of             *)
(* random.randint are inputs.                                              *)

Digits == <<"0", "1", "2", "3", "4", "5", "6", "7", "8", "9">>

\* int(s) for a text of decimal digits: ok is FALSE where int raises ValueError.
ParseInt(s) ==
    LET V[i \in 0..Len(s)] ==
            IF i = 0 THEN 0
            ELSE 10 * V[i - 1] + ((CHOOSE k \in 1..10 : Digits[k] = s[i]) - 1)
        ok == s # <<>> /\ \A i \in 1..Len(s) : \E k \in 1..10 : Digits[k] = s[i]
    IN  [ok |-> ok, value |-> IF ok THEN V[Len(s)] ELSE 0]

\* str(n) for n >= 0
RECURSIVE IntToStr(_)
IntToStr(n) ==
    IF n < 10 THEN <<Digits[n + 1]>>
    ELSE Append(IntToStr(n \div 10), Digits[(n % 10) + 1])

\* s.split(ch) for a separator of one character.
RECURSIVE SplitOn(_, _)
SplitOn(s, ch) ==
    LET at == {i \in 1..Len(s) : s[i] = ch}
    IN  IF at = {} THEN <<s>>
        ELSE LET k == CHOOSE i \in at : \A j \in at : i <= j
             IN  <<SubSeq(s, 1, k - 1)>> \o SplitOn(From(s, k), ch)

\* sum(results)
RECURSIVE Sum(_)
Sum(seq) == IF seq = <<>> THEN 0 ELSE Head(seq) + Sum(Tail(seq))

\* The parsing of roll: the modifier, the count and the sides; ok is FALSE
\* where the code raises (a split that does not give two parts, a text that
\* int rejects, no "d").
ParseDice(dice_str) ==
    LET plus == SplitOn(dice_str, "+")
        minus == SplitOn(dice_str, "-")
        signed == IF Len(plus) > 1 THEN plus ELSE minus
        has_mod == Len(plus) > 1 \/ Len(minus) > 1
        mod == IF has_mod /\ Len(signed) = 2 THEN ParseInt(signed[2]) ELSE ParseInt(<<>>)
        dice_part == IF has_mod THEN signed[1] ELSE dice_str
        d == SplitOn(dice_part, "d")
        count == IF Len(d) = 2 /\ d[1] # <<>> THEN ParseInt(d[1]) ELSE ParseInt(<<"1">>)
        sides == IF Len(d) = 2 THEN ParseInt(d[2]) ELSE ParseInt(<<>>)
    IN  [ ok |-> /\ has_mod => (Len(signed) = 2 /\ mod.ok)
                 /\ Len(d) = 2 /\ count.ok /\ sides.ok,
          modifier |-> IF ~has_mod THEN 0
                       ELSE IF Len(plus) > 1 THEN mod.value ELSE 0 - mod.value,
          count |-> count.value,
          sides |-> sides.value ]

\* Variant of roll whose critical test asks for one die at the maximum.
roll_any_max(dice_str, results, fallback) ==
    LET p == ParseDice(dice_str)
    IN  IF p.ok /\ (p.count >= 1 => p.sides >= 1)
        THEN [ dice_type |-> p.sides, count |-> p.count, modifier |-> p.modifier,
               results |-> results, total |-> Sum(results) + p.modifier,
               is_critical |-> \E i \in 1..Len(results) : results[i] = p.sides,
               is_fumble |-> \A i \in 1..Len(results) : results[i] = 1 ]
        ELSE [ dice_type |-> 6, count |-> 1, modifier |-> 0,
               results |-> <<fallback>>, total |-> fallback,
               is_critical |-> FALSE, is_fumble |-> FALSE ]

\* DiceRoller.roll(dice_str): results are the draws of random.randint(1, sides)
\* and fallback is the draw of random.randint(1, 6) of the except branch, taken
\* when the parsing raises or when randint raises for sides < 1.
roll(dice_str, results, fallback) ==
    LET p == ParseDice(dice_str)
    IN  IF p.ok /\ (p.count >= 1 => p.sides >= 1)
        THEN [ dice_type |-> p.sides, count |-> p.count, modifier |-> p.modifier,
               results |-> results, total |-> Sum(results) + p.modifier,
               is_critical |-> \A i \in 1..Len(results) : results[i] = p.sides,
               is_fumble |-> \A i \in 1..Len(results) : results[i] = 1 ]
        ELSE [ dice_type |-> 6, count |-> 1, modifier |-> 0,
               results |-> <<fallback>>, total |-> fallback,
               is_critical |-> FALSE, is_fumble |-> FALSE ]

----------------------------------------------------------------------------
(* The dice roller on its own: one roll per behaviour.                     *)

MaxDice == 2        \* N of the roll strings
MaxSides == 10      \* M of the roll strings
MaxModifier == 3    \* K of the roll strings

\* The roll string NdM+K.
DiceString(n, m, k) == IntToStr(n) \o <<"d">> \o IntToStr(m) \o <<"+">> \o IntToStr(k)

\* Roll strings that are not of the form NdM+K: no count, a negative
\* modifier, no modifier, and texts the parsing rejects.
OtherDiceStrings ==
    { <<"d", "6">>, <<"2", "d", "8", "-", "1">>, <<"1", "d", "8">>, <<"2", "d", "6">>,
      <<"1", "d", "0">>, <<"6">>, <<"1", "d", "6", "+", "1", "+", "1">>, <<"x", "d", "6">>,
      <<>> }

DiceInit ==
    /\ player = NewPlayer
    /\ npcs = <<>>
    /\ UnitInitRest

\* The draws of one roll of a string parsed as p: count results in 1..sides
\* and no fallback draw, or only the fallback draw when the try block raises.
Draws(p) ==
    IF p.ok /\ (p.count >= 1 => p.sides >= 1)
    THEN {[results |-> r, fallback |-> 1] : r \in [1..p.count -> 1..p.sides]}
    ELSE {[results |-> <<>>, fallback |-> f] : f \in 1..6}

RollCall(dice_str, n, m, k) ==
    /\ last.op = "init"
    /\ \E draw \in Draws(ParseDice(dice_str)) :
         last' = [op |-> "roll", dice_str |-> dice_str, n |-> n, m |-> m, k |-> k,
                  ret |-> roll(dice_str, draw.results, draw.fallback)]
    /\ UNCHANGED <<player, npcs, items, locations, current_state, combat_state, result, generator, session>>

\* A roll of NdM+K.
RollDice ==
    \E n \in 1..MaxDice, m \in 1..MaxSides, k \in 0..MaxModifier :
        RollCall(DiceString(n, m, k), n, m, k)

\* A roll of another string.
RollOther ==
    \E dice_str \in OtherDiceStrings : RollCall(dice_str, 0, 0, 0)

DiceNext ==
    \/ RollDice
    \/ RollOther

SpecDice == DiceInit /\ [][DiceNext]_vars

----------------------------------------------------------------------------
(* Properties of the dice roller (checked under SpecDice).                 *)

\* C15: for a roll string NdM+K the total is in [N+K, N*M+K], is_critical is
\* true exactly when every die shows M and is_fumble exactly when every die
\* shows 1; the written examples "1d8" and "2d6+3" are among the strings.
C15_RollRange ==
    /\ (last.op = "roll" /\ last.n >= 1) =>
          /\ last.ret.total >= last.n + last.k
          /\ last.ret.total <= last.n * last.m + last.k
          /\ Len(last.ret.results) = last.n
          /\ last.ret.is_critical <=> \A i \in 1..last.n : last.ret.results[i] = last.m
          /\ last.ret.is_fumble <=> \A i \in 1..last.n : last.ret.results[i] = 1
    /\ (last.op = "roll" /\ last.dice_str = <<"1", "d", "8">>) =>
          last.ret.total \in 1..8
    /\ (last.op = "roll" /\ last.dice_str = DiceString(2, 6, 3)) =>
          last.ret.total \in 5..15

\* "2d6+3" rolled with one die at 6 and the other below: 9 or more, no critical.
C15_Witness ==
    /\ last.op = "roll"
    /\ last.dice_str = DiceString(2, 6, 3)
    /\ last.ret.results = <<6, 2>>
    /\ last.ret.total = 11
    /\ ~last.ret.is_critical /\ ~last.ret.is_fumble

----------------------------------------------------------------------------
(* Properties of the combat rounds.                                        *)

\* C16: an attack command in active combat that leaves the enemy standing is
\* followed within the same command by the enemy's counter-attack; the result
\* carries next_situation combat (game_over when the player's hp reaches 0)
\* and combat stays active with the same enemy bound.  The enemy is still
\* bound after the command exactly when the attack did not defeat it.
C16_AttackThenCounterAttack ==
    ( /\ last.op = "command"
      /\ last.in_combat
      /\ last.cmd = s_attack
      /\ current_state.current_enemy # None ) =>
        /\ last.enemy_attacked
        /\ result.next_situation = (IF player.hp <= 0 THEN "game_over" ELSE "combat")
        /\ current_state.combat_active
        /\ combat_state = (player.hp > 0)

----------------------------------------------------------------------------
(* A location with five hostile NPCs: enough XP at level 1 to level up.    *)

HordeSize == 5

\* A generation whose location_population lists HordeSize goblins.
HordeScenarios ==
    { [ data |-> GenData(t_dark, <<f_shelf>>),
        population |-> [empty |-> FALSE, npcs |-> [k \in 1..HordeSize |-> [name |-> n_Goblin]],
                        items |-> <<>>],
        item_hidden |-> <<>>, searchable |-> {}, potion_hidden |-> FALSE ] }

\* The move north from the starting area into the location of the horde.
MoveHorde ==
    /\ ~combat_state
    /\ LeadsToNew(s_north)
    /\ \E gen \in GensOf(s_north, HordeScenarios) :
          Command(c_move_north, [NoDraw EXCEPT !.gen = gen])

\* Opening attacks on the goblins one after the other, and the combat commands
\* that end a combat.
HordeNext ==
    \/ MoveHorde
    \/ Attack
    \/ CombatAttack
    \/ CombatRetreat

SpecHorde == Init /\ [][HordeNext]_vars

\* The NPC that "attack goblin" targets in the current location, or None.
GoblinTarget ==
    IF player.current_location_id \in DOMAIN locations
    THEN get_npc(locations[player.current_location_id], Lower(n_Goblin), npcs)
    ELSE None

\* C17 as stated: a successful "attack <target>" typed outside combat binds
\* current_enemy and resolves one exchange: the opening strike, then the
\* counter-attack exactly when the enemy survived; when both survive the
\* command ends with combat_active true and next_situation combat; when the
\* enemy dies from the opening strike the player's hp is unchanged.
C17_OpeningExchangeHpUnchanged ==
    [][ ( /\ last'.op = "command" /\ last'.cmd = c_attack_goblin /\ ~last'.in_combat
          /\ GoblinTarget # None )
        => IF npcs'[GoblinTarget].is_defeated
           THEN /\ ~last'.enemy_attacked
                /\ player'.hp = player.hp
           ELSE /\ last'.enemy_attacked
                /\ current_state'.current_enemy = GoblinTarget
                /\ player'.hp > 0 =>
                      /\ current_state'.combat_active
                      /\ result'.next_situation = "combat" ]_vars

\* C17: a successful "attack <target>" typed outside combat resolves one
\* exchange: the opening strike lowers the enemy's hp; when the enemy survives
\* it stays bound as current_enemy and counter-attacks (the player loses hp),
\* and when both survive the command ends with combat_active true and
\* next_situation combat; when the enemy dies from the opening strike there
\* is no counter-attack, combat ends with current_enemy unbound, and the
\* player's hp is unchanged unless the XP gained levels the player up, which
\* sets hp to the new max_hp.
C17_OpeningExchange ==
    [][ ( /\ last'.op = "command" /\ last'.cmd = c_attack_goblin /\ ~last'.in_combat
          /\ GoblinTarget # None )
        => /\ npcs'[GoblinTarget].hp < npcs[GoblinTarget].hp
           /\ IF npcs'[GoblinTarget].is_defeated
              THEN /\ ~last'.enemy_attacked
                   /\ ~current_state'.combat_active
                   /\ current_state'.current_enemy = None
                   /\ result'.next_situation = "exploration"
                   /\ IF player'.level = player.level
                      THEN player'.hp = player.hp
                      ELSE player'.hp = player'.max_hp
              ELSE /\ last'.enemy_attacked
                   /\ current_state'.current_enemy = GoblinTarget
                   /\ player.hp > 0 => player'.hp < player.hp
                   /\ result'.next_situation =
                         (IF player'.hp <= 0 THEN "game_over" ELSE "combat")
                   /\ player'.hp > 0 =>
                         /\ current_state'.combat_active
                         /\ combat_state' ]_vars

\* An opening strike has defeated the fifth goblin and the XP gained has
\* levelled the player up, whose hp is now the new max_hp.
C17_Witness ==
    /\ last.op = "command" /\ last.cmd = c_attack_goblin /\ ~last.in_combat
    /\ ~last.enemy_attacked
    /\ \A n \in 1..Len(npcs) : npcs[n].is_defeated
    /\ Len(npcs) = HordeSize
    /\ player.level = 2
    /\ player.hp = player.max_hp
    /\ ~current_state.combat_active

\* The raw damage of the enemy attack resolved by the last command: what
\* enemy.attack() returned for the recorded draws.
RawDamage == NPC_attack(npcs[current_state.current_enemy], last'.variation, last'.crit)

\* C18: the defending effect granted by defend lasts one round: it halves the
\* enemy attack resolved in the same command, and the player no longer holds
\* it when the enemy attack of a later combat command other than defend is
\* resolved, which therefore does its full damage.
C18_DefendingLastsOneRound ==
    [][ ( /\ last'.op = "command" /\ last'.in_combat /\ last'.enemy_attacked
          /\ current_state.current_enemy # None )
        => IF last'.cmd = s_defend
           THEN player'.hp = Player_take_damage(player, Max(1, RawDamage \div 2)).player.hp
           ELSE /\ "defending" \notin DOMAIN player.status_effects
                /\ last'.cmd \notin UseCommands =>
                      player'.hp = Player_take_damage(player, RawDamage).player.hp ]_vars

----------------------------------------------------------------------------
(* One enemy turn on its own: a specification whose initial states are     *)
(* combats under way, drawn from bounded sets, and whose actions each      *)
(* process one combat command that yields to the enemy.                    *)

\* random.uniform(0.8, 1.2), in hundredths: the ends and the middle.
VariationSample == {80, 100, 120}

\* Commands typed in combat that are none of attack, defend, retreat, use.
InvalidCommands == {c_dance, c_look, c_move_north, c_take_potion}

EnemyTurnInit ==
    /\ \E level \in 1..ULevels, armor \in {0, UArmorBonus}, nlevel \in 1..ULevels,
          theme \in {"normal", "dangerous"}, defending \in BOOLEAN :
          \E hp \in 1..(50 + 10 * (level - 1)) :
             /\ player = [UnitPlayer(level, 0, armor, hp, 0) EXCEPT
                             !.status_effects = IF defending THEN DictSet(@, "defending", 1)
                                                ELSE @]
             /\ npcs = <<create_combat_npc(n_Goblin, nlevel, theme)>>
    /\ items = <<>>
    /\ locations = <<>>
    /\ current_state = [combat_active |-> TRUE, current_enemy |-> 1,
                        discovered_secrets |-> {}]
    /\ combat_state = TRUE
    /\ result = [message |-> <<>>, next_situation |-> "combat"]
    /\ generator = NewGenerator
    /\ session = NewSession
    /\ last = [op |-> "init"]

\* The command defend, followed by the enemy's attack.
TurnDefend ==
    /\ last.op = "init"
    /\ \E variation \in VariationSample, crit \in BOOLEAN :
          Command(s_defend, [NoDraw EXCEPT !.variation = variation, !.crit = crit])

\* An invalid combat command, followed by the enemy's attack.
TurnInvalid ==
    /\ last.op = "init"
    /\ \E cmd \in InvalidCommands, variation \in VariationSample, crit \in BOOLEAN :
          Command(cmd, [NoDraw EXCEPT !.variation = variation, !.crit = crit])

EnemyTurnNext ==
    \/ TurnDefend
    \/ TurnInvalid

SpecEnemyTurn == EnemyTurnInit /\ [][EnemyTurnNext]_vars

\* The player holds the defending effect when the enemy attack of the command
\* that is being processed is resolved.
DefendedAttack ==
    /\ last'.op = "command" /\ last'.in_combat /\ last'.enemy_attacked
    /\ current_state.current_enemy # None
    /\ last'.cmd \notin UseCommands
    /\ last'.cmd = s_defend \/ "defending" \in DOMAIN player.status_effects

\* C19 as stated: an enemy attack of raw damage d on a defending player costs
\* max(1, floor(max(1, d - defense) / 2)) hp: the defense is subtracted first
\* and the rest is halved (stated for the attacks the player survives, which
\* are not cut short at 0 hp).
C19_DefenseThenHalved ==
    [][ (DefendedAttack /\ player'.hp > 0) =>
          player.hp - player'.hp = Max(1, Max(1, RawDamage - player.defense) \div 2) ]_vars

\* C19: an enemy attack of raw damage d on a defending player costs
\* max(1, max(1, floor(d / 2)) - defense) hp, and no more than the hp the
\* player has left: the raw damage is halved first and the defense is
\* subtracted from the half.
C19_HalvedThenDefense ==
    [][ DefendedAttack =>
          player.hp - player'.hp =
             Min(player.hp, Max(1, Max(1, RawDamage \div 2) - player.defense)) ]_vars

\* A level-1 player with defense 2 has taken a defended critical hit of a
\* level-1 goblin (raw damage 10) at full hp and has lost 3 hp.
C19_Witness ==
    /\ last.op = "command" /\ last.cmd = s_defend /\ last.in_combat
    /\ last.enemy_attacked /\ last.crit /\ last.variation = 100
    /\ "defending" \in DOMAIN player.status_effects
    /\ npcs[1].attack_power = 5
    /\ player.defense = 2
    /\ player.max_hp = 50
    /\ player.hp = 47

----------------------------------------------------------------------------
(* Commands typed with an alias verb of command_aliases.                   *)

c_n == <<"n">>
c_fight_goblin == <<"f", "i", "g", "h", "t", " ", "g", "o", "b", "l", "i", "n">>
c_hit_goblin == <<"h", "i", "t", " ", "g", "o", "b", "l", "i", "n">>
c_strike_goblin == <<"s", "t", "r", "i", "k", "e", " ", "g", "o", "b", "l", "i", "n">>
c_grab_potion == <<"g", "r", "a", "b", " ", "P", "o", "t", "i", "o", "n">>
c_pickup_potion == <<"p", "i", "c", "k", "u", "p", " ", "P", "o", "t", "i", "o", "n">>

\* The entries of command_aliases for the verbs above, each as a command
\* typed with the alias and the same command typed with the canonical verb.
AliasPairs ==
    { [alias |-> c_n, canonical |-> c_move_north],
      [alias |-> c_fight_goblin, canonical |-> c_attack_goblin],
      [alias |-> c_hit_goblin, canonical |-> c_attack_goblin],
      [alias |-> c_strike_goblin, canonical |-> c_attack_goblin],
      [alias |-> c_grab_potion, canonical |-> c_take_potion],
      [alias |-> c_pickup_potion, canonical |-> c_take_potion] }

\* A command typed with an alias verb outside combat.
AliasCommand ==
    /\ ~combat_state
    /\ \E pair \in AliasPairs, ar \in ActionResponses :
          Command(pair.alias, [NoDraw EXCEPT !.action = ar])

\* Exploration with alias verbs: the way to a goblin and to a potion, and the
\* alias commands.
AliasNext ==
    \/ MoveNew
    \/ Take
    \/ AliasCommand

SpecAlias == Init /\ [][AliasNext]_vars

\* The draws a canonical command may consume: the generation of a move, the
\* die and the enemy's attack of an opening strike.
CanonicalDraws ==
    { [NoDraw EXCEPT !.gen = gen, !.roll = base_roll, !.variation = variation,
                     !.crit = crit] :
        gen \in {NoGen} \cup Gens(s_north), base_roll \in RollSample,
        variation \in Variations, crit \in BOOLEAN }

\* C20: a command typed with an alias verb outside combat is handled as the
\* command with the canonical verb: "n" as a move north, "fight", "hit" and
\* "strike" as attack, "grab" and "pickup" as take; the state changes and the
\* result are those the canonical command produces for some draws.
C20_AliasAsCanonical ==
    [][ \A pair \in AliasPairs :
          ( last'.op = "command" /\ last'.cmd = pair.alias /\ ~last'.in_combat ) =>
             \E d \in CanonicalDraws :
                /\ process_command(World, combat_state, pair.canonical, d).w = World'
                /\ process_command(World, combat_state, pair.canonical, d).result = result'
      ]_vars

----------------------------------------------------------------------------
(* Properties of the combat flag and of the end of an exchange.            *)

\* C21: after every command the combat_active flag of the game world is true
\* exactly when the result of the command has next_situation combat; no
\* command returns exploration, dialog or game_over and leaves combat_active
\* true with an enemy bound.
C21_CombatFlagFollowsResult ==
    last.op = "command" =>
        /\ current_state.combat_active <=> (result.next_situation = "combat")
        /\ ~( /\ result.next_situation \in {"exploration", "dialog", "game_over"}
              /\ current_state.combat_active
              /\ current_state.current_enemy # None )

----------------------------------------------------------------------------
(* Equipment: a session with a weapon and an armor to take, a goblin to    *)
(* fight, and the use commands in and out of combat.                       *)

n_LeatherArmor == <<"L", "e", "a", "t", "h", "e", "r", " ", "A", "r", "m", "o", "r">>
c_take_armor == <<"t", "a", "k", "e", " ", "L", "e", "a", "t", "h", "e", "r", " ", "A", "r", "m", "o", "r">>
c_use_armor == <<"u", "s", "e", " ", "L", "e", "a", "t", "h", "e", "r", " ", "A", "r", "m", "o", "r">>

GearTakeCommands == {c_take_sword, c_take_armor}
GearUseCommands == {c_use_sword, c_use_armor}

\* A generation whose location_population lists a goblin and a visible armor.
ArmoryScenarios ==
    { [ data |-> GenData(t_generic, <<f_path>>),
        population |-> [empty |-> FALSE, npcs |-> <<[name |-> n_Goblin]>>,
                        items |-> <<[name |-> n_LeatherArmor, type |-> s_armor,
                                     effect_value |-> 2]>>],
        item_hidden |-> <<FALSE>>, searchable |-> {}, potion_hidden |-> FALSE ] }

\* The move north from the starting area into the location of the armor.
MoveArmory ==
    /\ ~combat_state
    /\ LeadsToNew(s_north)
    /\ \E gen \in GensOf(s_north, ArmoryScenarios) :
          Command(c_move_north, [NoDraw EXCEPT !.gen = gen])

TakeGear ==
    /\ ~combat_state
    /\ \E cmd \in GearTakeCommands : Command(cmd, NoDraw)

\* "use <weapon or armor>" typed outside combat.
UseGear ==
    /\ ~combat_state
    /\ \E cmd \in GearUseCommands : Command(cmd, NoDraw)

\* "use <weapon or armor>" typed in combat.
CombatEquip ==
    /\ combat_state
    /\ \E cmd \in GearUseCommands, variation \in Variations, crit \in BOOLEAN :
          Command(cmd, [NoDraw EXCEPT !.variation = variation, !.crit = crit])

EquipNext ==
    \/ MoveArmory
    \/ TakeGear
    \/ UseGear
    \/ Attack
    \/ CombatEquip
    \/ CombatRetreat

SpecEquip == Init /\ [][EquipNext]_vars

\* The id of the first inventory item whose name is the argument of the use
\* command cmd, compared as the combat handler compares it; None without one.
HeldItem(cmd) ==
    LET item_name == Strip(From(cmd, 4))
        hit == {i \in 1..Len(player.inventory) :
                   Lower(items[player.inventory[i]].name) = Lower(item_name)}
    IN  IF hit = {} THEN None
        ELSE player.inventory[CHOOSE i \in hit : \A j \in hit : i <= j]

\* C23: using a weapon or armor item of the inventory in combat switches the
\* equipped slot and the effect totals and does not cost the turn: no enemy
\* attack is resolved, the hp of the player and of the enemy are unchanged,
\* the inventory is unchanged, and combat stays active with next_situation
\* combat.
C23_EquipKeepsTurn ==
    [][ \A cmd \in GearUseCommands :
          ( /\ last'.op = "command" /\ last'.cmd = cmd /\ last'.in_combat
            /\ current_state.current_enemy # None
            /\ HeldItem(cmd) # None )
          => LET id == HeldItem(cmd)
                 weapon == items[id].item_type = "weapon"
                 slot == IF weapon THEN "equipped_weapon" ELSE "equipped_armor"
                 old == player.attributes[slot]
                 delta == IF old = id THEN 0
                          ELSE items[id].effect_value
                               - (IF old = None THEN 0 ELSE items[old].effect_value)
             IN  /\ ~last'.enemy_attacked
                 /\ ~last'.raised
                 /\ player'.attributes[slot] = id
                 /\ player'.attack_power = player.attack_power + (IF weapon THEN delta ELSE 0)
                 /\ player'.defense = player.defense + (IF weapon THEN 0 ELSE delta)
                 /\ player'.hp = player.hp
                 /\ player'.inventory = player.inventory
                 /\ npcs' = npcs
                 /\ items' = items
                 /\ current_state' = current_state
                 /\ current_state'.combat_active
                 /\ result'.next_situation = "combat"
                 /\ combat_state' ]_vars

\* The armor has been equipped in combat over an equipped sword: defense 4,
\* attack power 7, the goblin has not attacked and the combat goes on.
C23_Witness ==
    /\ last.op = "command" /\ last.cmd = c_use_armor /\ last.in_combat
    /\ ~last.enemy_attacked
    /\ player.attributes.equipped_armor # None
    /\ player.attributes.equipped_weapon # None
    /\ player.defense = 4
    /\ player.attack_power = 7
    /\ result.next_situation = "combat"
    /\ current_state.combat_active /\ current_state.current_enemy # None

\* C24: an item referenced as the equipped weapon or the equipped armor is
\* also in the inventory of the player.
C24_EquippedItemsAreHeld ==
    \A slot \in {"equipped_weapon", "equipped_armor"} :
        player.attributes[slot] # None =>
            \E i \in 1..Len(player.inventory) :
                player.inventory[i] = player.attributes[slot]

----------------------------------------------------------------------------
(* The defeat of the enemy (checked under SpecHorde and SpecCombat).       *)

\* C25: when a command brings the hp of an NPC to 0, by the opening strike
\* or by an in-combat attack, the XP reward of that NPC is granted exactly
\* once (with at most one level-up, which restores the hp), combat_active is
\* false, current_enemy is unbound, the enemy does not counter-attack (the hp
\* of the player is not reduced) and next_situation is exploration.
C25_DefeatEndsCombat ==
    [][ \A n \in 1..Len(npcs) :
          ( /\ last'.op = "command"
            /\ npcs[n].hp > 0
            /\ npcs'[n].hp = 0 )
          => LET reward == calculate_xp_reward(npcs[n])
                 leveled == player.xp + reward >= player.level * 100
             IN  /\ npcs'[n].is_defeated
                 /\ player'.xp = player.xp + reward
                 /\ player'.level = player.level + (IF leveled THEN 1 ELSE 0)
                 /\ player'.hp = IF leveled THEN player'.max_hp ELSE player.hp
                 /\ ~last'.enemy_attacked
                 /\ ~last'.raised
                 /\ ~current_state'.combat_active
                 /\ current_state'.current_enemy = None
                 /\ result'.next_situation = "exploration"
                 /\ ~combat_state'
                 /\ \A m \in 1..Len(npcs) : m # n => npcs'[m] = npcs[m] ]_vars

\* An in-combat attack has just defeated the bound goblin: one reward is
\* held, the combat is over and the player was not hit by that command.
C25_Witness ==
    /\ last.op = "command" /\ last.cmd = s_attack /\ last.in_combat
    /\ ~last.enemy_attacked
    /\ \E n \in 1..Len(npcs) :
          /\ npcs[n].hp = 0 /\ npcs[n].is_defeated
          /\ player.xp = calculate_xp_reward(npcs[n])
    /\ ~current_state.combat_active
    /\ current_state.current_enemy = None
    /\ result.next_situation = "exploration"

\* C26: a command that takes the hp of the player from above 0 to 0 or below
\* answers with next_situation game_over.
C26_FatalCommandIsGameOver ==
    [][ ( /\ last'.op = "command"
          /\ player.hp > 0
          /\ player'.hp <= 0 )
        => result'.next_situation = "game_over" ]_vars

\* The NPCs named Goblin of the player's location.
GoblinsHere ==
    IF player.current_location_id \in DOMAIN locations
    THEN LET loc == locations[player.current_location_id]
         IN  {loc.npcs[i] : i \in {j \in 1..Len(loc.npcs) :
                                      Lower(npcs[loc.npcs[j]].name) = Lower(n_Goblin)}}
    ELSE {}

\* What holds of defeated NPCs at every step: an NPC whose hp is 0 is
\* defeated, a defeated NPC stays defeated and is never struck or changed
\* again, XP is gained only when an undefeated NPC becomes defeated, and the
\* bound enemy is never a defeated NPC.
DefeatIsPermanent ==
    /\ \A n \in 1..Len(npcs') : npcs'[n].hp = 0 => npcs'[n].is_defeated
    /\ \A n \in 1..Len(npcs) : npcs[n].is_defeated => npcs'[n] = npcs[n]
    /\ player'.xp # player.xp =>
           \E n \in 1..Len(npcs) : ~npcs[n].is_defeated /\ npcs'[n].is_defeated
    /\ current_state'.current_enemy # None =>
           ~npcs'[current_state'.current_enemy].is_defeated

\* The attack command was refused for want of a target and changed nothing.
AttackRefused ==
    /\ result'.message[1] = "You don't see "
    /\ result'.next_situation = "exploration"
    /\ ~last'.enemy_attacked
    /\ ~combat_state'
    /\ World' = World

\* C27 as stated: defeat is permanent, and an attack command that names a
\* defeated NPC of the location fails with a message and does not enter
\* combat.
C27_AttackOnDefeatedNameFails ==
    [][ /\ DefeatIsPermanent
        /\ ( /\ last'.op = "command" /\ last'.cmd = c_attack_goblin /\ ~last'.in_combat
             /\ \E n \in GoblinsHere : npcs[n].is_defeated )
           => AttackRefused ]_vars

\* C27: defeat is permanent, a defeated NPC is never struck again nor bound
\* as current_enemy, and an attack command whose name matches only defeated
\* NPCs of the location fails with a message and does not enter combat; when
\* an undefeated NPC of the same name is present the attack resolves to it.
C27_DefeatedNeverTargeted ==
    [][ /\ DefeatIsPermanent
        /\ ( /\ last'.op = "command" /\ last'.cmd = c_attack_goblin /\ ~last'.in_combat
             /\ GoblinsHere # {}
             /\ \A n \in GoblinsHere : npcs[n].is_defeated )
           => AttackRefused ]_vars

\* Every goblin of the location is defeated and a further "attack goblin"
\* has just been refused.
C27_Witness ==
    /\ last.op = "command" /\ last.cmd = c_attack_goblin /\ ~last.in_combat
    /\ GoblinsHere # {}
    /\ \A n \in GoblinsHere : npcs[n].is_defeated /\ npcs[n].hp = 0
    /\ result.message[1] = "You don't see "
    /\ result.next_situation = "exploration"
    /\ ~current_state.combat_active
    /\ current_state.current_enemy = None

----------------------------------------------------------------------------
(* Movement restrictions: sessions in which exits get locked and unlocked  *)
(* by generated action responses and the player gets status effects.       *)

LockableDirections == {s_north, s_south}
BlockingEffects == {"paralyzed", "stunned"}

\* action_response envelopes whose location_changes set or clear the
\* "{direction}_locked" state of the current location.
LockResponses ==
    { [description |-> "lock", next_situation |-> "exploration",
       location_changes |-> <<[change |-> <<direction, "_locked">>, value |-> value]>>] :
         direction \in LockableDirections, value \in BOOLEAN }

\* A free-form command whose generated response locks or unlocks an exit.
LockExit ==
    /\ ~combat_state
    /\ \E cmd \in OtherCommands, ar \in LockResponses :
          Command(cmd, [NoDraw EXCEPT !.action = ar])

\* Player.add_status_effect(effect, duration) for an effect that prevents
\* movement.
AddStatusEffect ==
    /\ ~combat_state
    /\ \E effect \in BlockingEffects :
          /\ player' = [player EXCEPT !.status_effects = DictSet(@, effect, 1)]
          /\ last' = [op |-> "add_status_effect"]
          /\ UNCHANGED <<npcs, items, locations, current_state, combat_state, result, generator, session>>

\* Player.remove_status_effect(effect)
RemoveStatusEffect ==
    /\ ~combat_state
    /\ \E effect \in BlockingEffects :
          /\ effect \in DOMAIN player.status_effects
          /\ player' = [player EXCEPT !.status_effects =
                           [k \in DOMAIN @ \ {effect} |-> @[k]]]
          /\ last' = [op |-> "remove_status_effect"]
          /\ UNCHANGED <<npcs, items, locations, current_state, combat_state, result, generator, session>>

RestrictionNext ==
    \/ Move
    \/ MoveNew
    \/ LockExit
    \/ AddStatusEffect
    \/ RemoveStatusEffect

SpecRestriction == Init /\ [][RestrictionNext]_vars

\* The "{direction}_locked" state of the player's location is set.
Locked(direction) ==
    LET sc == locations[player.current_location_id].state_changes
        key == <<direction, "_locked">>
    IN  key \in DOMAIN sc /\ sc[key]

\* C28: a move command whose direction is not an exit of the location, whose
\* exit is locked, or that is typed while the player is paralyzed or stunned
\* answers with the restriction message and next_situation exploration and
\* leaves the whole game state unchanged: same location, no location
\* generated or stored, no visited flag changed.
C28_RejectedMoveChangesNothing ==
    [][ \A cmd \in MoveCommands :
          LET direction == Direction(cmd)
              exits == locations[player.current_location_id].exits
              no_exit == direction \notin DOMAIN exits
              paralyzed == "paralyzed" \in DOMAIN player.status_effects
              stunned == "stunned" \in DOMAIN player.status_effects
          IN  ( /\ last'.op = "command" /\ last'.cmd = cmd /\ ~last'.in_combat
                /\ (no_exit \/ Locked(direction) \/ paralyzed \/ stunned) )
              => /\ World' = World
                 /\ DOMAIN locations' = DOMAIN locations
                 /\ player'.current_location_id = player.current_location_id
                 /\ ~combat_state'
                 /\ ~last'.raised
                 /\ result'.next_situation = "exploration"
                 /\ result'.message =
                       IF no_exit THEN <<"You cannot go ", direction, " from here.">>
                       ELSE IF Locked(direction)
                       THEN <<"The way ", direction, " is locked or blocked.">>
                       ELSE IF paralyzed THEN <<"You are paralyzed and cannot move!">>
                       ELSE <<"You are too stunned to move right now.">> ]_vars

\* "move north" has just been refused at the locked north exit of the
\* starting area, whose destination has not been generated.
C28_Witness ==
    /\ last.op = "command" /\ last.cmd = c_move_north /\ ~last.in_combat
    /\ player.current_location_id = StartingArea
    /\ Locked(s_north)
    /\ result.message = <<"The way ", s_north, " is locked or blocked.">>
    /\ result.next_situation = "exploration"
    /\ locations[StartingArea].exits[s_north] \notin DOMAIN locations

----------------------------------------------------------------------------
(* Exploration: sessions of move commands over lazily generated locations, *)
(* with every draw of the additional exits.                                *)

MaxExplored == 3   \* materialized locations of an exploration

\* The location types drawn, one of those location_types allows per direction.
ExploreTypes == {"forest", "valley", "river", "caves"}

\* A generation that succeeds with an empty population.
ExploreScenarios ==
    { [ data |-> GenData(t_generic, <<f_path>>),
        population |-> [empty |-> TRUE, npcs |-> <<>>, items |-> <<>>],
        item_hidden |-> <<>>, searchable |-> {}, potion_hidden |-> FALSE ] }

\* A generation that raises, so that the fallback location is created.
FallbackScenarios ==
    { [ data |-> [GenData(t_generic, <<f_path>>) EXCEPT !.mapping = FALSE],
        population |-> [empty |-> TRUE, npcs |-> <<>>, items |-> <<>>],
        item_hidden |-> <<>>, searchable |-> {}, potion_hidden |-> FALSE ] }

\* The draws of one generation: the location type and the additional exits.
ExploreGens(direction, scenarios) ==
    { [ location_type |-> lt, extra |-> ex, data |-> g.data, population |-> g.population,
        item_hidden |-> g.item_hidden, searchable |-> g.searchable,
        potion_hidden |-> g.potion_hidden ] :
        lt \in location_types(direction) \cap ExploreTypes,
        ex \in ExtraExits(direction),
        g \in scenarios }

\* A move to a materialized location, or a move that is refused.
MoveKnown ==
    /\ ~combat_state
    /\ \E cmd \in MoveCommands :
          /\ ~LeadsToNew(Direction(cmd))
          /\ CommandWithin(cmd, NoDraw, MaxExplored)

\* A move that materializes its destination on the normal path.
MoveGenerate ==
    /\ ~combat_state
    /\ \E cmd \in MoveCommands :
          /\ LeadsToNew(Direction(cmd))
          /\ \E gen \in ExploreGens(Direction(cmd), ExploreScenarios) :
                CommandWithin(cmd, [NoDraw EXCEPT !.gen = gen], MaxExplored)

\* A move whose generation fails and creates the fallback location.
MoveFallback ==
    /\ ~combat_state
    /\ \E cmd \in MoveCommands :
          /\ LeadsToNew(Direction(cmd))
          /\ \E gen \in ExploreGens(Direction(cmd), FallbackScenarios) :
                CommandWithin(cmd, [NoDraw EXCEPT !.gen = gen], MaxExplored)

ExploreNext ==
    \/ MoveKnown
    \/ MoveGenerate
    \/ MoveFallback

SpecExplore == Init /\ [][ExploreNext]_vars

\* The move command for a direction.
MoveCommandFor(direction) == CHOOSE cmd \in MoveCommands : Direction(cmd) = direction

\* C29: a move in direction d from location L that materializes its
\* destination, on the normal path or on the fallback path, leaves the
\* destination with an exit in the opposite direction of d that leads to L,
\* and the move back in that direction, typed right after, brings the player
\* back to L.
C29_ReturnExitLeadsBack ==
    [][ \A cmd \in MoveCommands :
          LET d == Direction(cmd)
              L == player.current_location_id
              id == locations[L].exits[d]
              back == opposite_directions(d)
          IN  ( /\ last'.op = "command" /\ last'.cmd = cmd /\ ~last'.in_combat
                /\ LeadsToNew(d) )
              => /\ id \in DOMAIN locations'
                 /\ player'.current_location_id = id
                 /\ back \in DOMAIN locations'[id].exits
                 /\ locations'[id].exits[back] = L
                 /\ process_command(World', combat_state', MoveCommandFor(back), NoDraw)
                        .w.player.current_location_id = L ]_vars

\* The player has just arrived, by "move north" from the generated forest
\* path, in a generated location with two additional exits whose south exit
\* leads back to the forest path.
C29_Witness ==
    /\ last.op = "command" /\ last.cmd = c_move_north /\ ~last.in_combat
    /\ player.current_location_id \notin {StartingArea, <<"forest_path">>}
    /\ LET loc == locations[player.current_location_id]
       IN  /\ s_south \in DOMAIN loc.exits
           /\ loc.exits[s_south] = <<"forest_path">>
           /\ Cardinality(DOMAIN loc.exits) = 3
    /\ Cardinality(DOMAIN locations) = 3

\* The location was created by _create_fallback_location.
IsFallback(loc) == loc.theme = t_mysterious

\* C30: a location generated lazily on the normal path has, besides the
\* return exit, one or two additional exits in distinct directions, each
\* leading to an id that is not materialized, has not been visited and is
\* not the id of the generated location itself.
C30_ExtraExitsLeadToNewIds ==
    [][ \A cmd \in MoveCommands :
          LET d == Direction(cmd)
              L == player.current_location_id
              id == locations[L].exits[d]
              back == opposite_directions(d)
          IN  ( /\ last'.op = "command" /\ last'.cmd = cmd /\ ~last'.in_combat
                /\ LeadsToNew(d)
                /\ id \in DOMAIN locations'
                /\ ~IsFallback(locations'[id]) )
              => LET exits == locations'[id].exits
                     extras == DOMAIN exits \ {back}
                 IN  /\ Cardinality(extras) \in {1, 2}
                     /\ \A e \in extras :
                           /\ exits[e] \notin DOMAIN locations
                           /\ exits[e] # id
                           /\ exits[e] \in DOMAIN locations' =>
                                 ~locations'[exits[e]].visited ]_vars

----------------------------------------------------------------------------
(* The result records: sessions in which the action_response envelope of   *)
(* the content generator carries any next_situation value.                 *)

Situations == {"exploration", "combat", "dialog", "game_over"}

\* action_response envelopes whose next_situation is a value the backend
\* chose freely: another string, or JSON null.
UncheckedResponses ==
    { [description |-> "plain", next_situation |-> s, location_changes |-> <<>>] :
        s \in {"victory", "null"} }

\* A free-form command answered by such an envelope.
OtherUnchecked ==
    /\ ~combat_state
    /\ \E cmd \in OtherCommands, ar \in UncheckedResponses :
          Command(cmd, [NoDraw EXCEPT !.action = ar])

c_status == <<"s", "t", "a", "t", "u", "s">>
c_interact == <<"i", "n", "t", "e", "r", "a", "c", "t">>
c_interact_stream == <<"i", "n", "t", "e", "r", "a", "c", "t", " ", "s", "t", "r", "e", "a", "m">>

SpecialCommands == {c_status, c_interact, c_interact_stream}

\* The commands "status" and "interact ..." typed outside combat.
Special ==
    /\ ~combat_state
    /\ \E cmd \in SpecialCommands, ar \in ActionResponses :
          Command(cmd, [NoDraw EXCEPT !.action = ar])

SituationNext ==
    \/ Move
    \/ MoveNew
    \/ Take
    \/ Use
    \/ Search
    \/ Look
    \/ Other
    \/ OtherUnchecked
    \/ Special

SpecSituation == Init /\ [][SituationNext]_vars

\* C31: the result record of every command has next_situation equal to one
\* of exploration, combat, dialog and game_over.
C31_NextSituationIsKnown == result.next_situation \in Situations

\* GameWorld._handle_status: the status display.
handle_status(w) ==
    Out(w, <<"Status of ", w.player.hp, w.player.max_hp, w.player.level, w.player.xp,
             w.player.attack_power, w.player.defense>>, "exploration")

\* GameWorld._handle_interaction(target, location); action_response is the
\* envelope of the content generator.
handle_interaction(w, target, loc_id, action_response) ==
    LET loc == w.locations[loc_id]
        feature_matches == {k \in 1..Len(loc.features) :
                               IsSubstr(Lower(target), Lower(loc.features[k]))}
    IN  IF target = <<>>
        THEN Out(w, <<"What do you want to interact with?">>, "exploration")
        ELSE IF feature_matches # {}
        THEN Out(w, <<"generated: ", action_response.description>>, "exploration")
        ELSE Out(w, <<"You don't see ", target, " here to interact with.">>, "exploration")

\* C32: outside combat "status" is answered by the status display and
\* "interact <target>" by the interaction handler; neither takes the generic
\* action-response path.
C32_StatusAndInteractHaveHandlers ==
    [][ \A cmd \in SpecialCommands :
          ( last'.op = "command" /\ last'.cmd = cmd /\ ~last'.in_combat )
          => LET parts == SplitFirst(cmd)
                 argument == IF Len(parts) > 1 THEN parts[2] ELSE <<>>
             IN  /\ World' = World
                 /\ IF cmd = c_status
                    THEN result' = handle_status(World).result
                    ELSE \E ar \in ActionResponses :
                            result' = handle_interaction(World, argument,
                                          player.current_location_id, ar).result ]_vars

----------------------------------------------------------------------------
(* The generation gate: coroutines of one event loop that call             *)
(* generate_content on the same AIGenerator.  A coroutine runs without     *)
(* interruption from one suspension point to the next; the backend call is *)
(* modelled as taking time, so that the other callers take steps while it  *)
(* is in flight.                                                           *)

MaxCalls == 12   \* calls of generate_content in one behaviour

\* How the backend call ends: it raises, it returns a response without
\* content, a text that is no JSON, a JSON value that validates, or a JSON
\* value on which _validate_response raises.
BackendOutcomes == {"exception", "no_content", "text", "json", "invalid"}

\* Variant of the acquisition that takes the lock whatever its state.
acquire_barging(g, t) ==
    [g EXCEPT !.locked = TRUE, !.pc[t] = "locked"]

\* "async with self._lock" on entry (asyncio.Lock.acquire): the lock is taken
\* at once when it is free and nobody waits for it; otherwise the caller
\* joins the queue of waiters and suspends.
acquire(g, t) ==
    IF ~g.locked /\ g.waiters = <<>>
    THEN [g EXCEPT !.locked = TRUE, !.pc[t] = "locked"]
    ELSE [g EXCEPT !.waiters = Append(@, t), !.pc[t] = "waiting"]

\* Variant of the exit of the with block that keeps the lock.
release_never(g) == g

\* "async with self._lock" on exit (asyncio.Lock.release): the lock is freed
\* and the first waiter is woken; it stays in the queue until it resumes.
release(g) ==
    IF g.waiters = <<>>
    THEN [g EXCEPT !.locked = FALSE]
    ELSE [g EXCEPT !.locked = FALSE, !.pc[Head(g.waiters)] = "woken"]

\* Variant of the history update that never evicts.
append_history_unbounded(g) ==
    [g EXCEPT !.clock = @ + 1,
              !.context_history = Append(@, [timestamp |-> g.clock + 1])]

\* self.context_history.append(...) followed by the pop(0) that maintains
\* the history length.
append_history(g) ==
    LET appended == Append(g.context_history, [timestamp |-> g.clock + 1])
    IN  [g EXCEPT !.clock = @ + 1,
                  !.context_history = IF Len(appended) > max_context_length
                                      THEN Tail(appended) ELSE appended]

\* What is left of generate_content once the backend call has ended with
\* outcome: the history update unless the call raised, the parsing and the
\* validation, the exit of the with block on every path, and the return of
\* the value or, after an exception, of the fallback response.
finish_call(g, t, outcome) ==
    LET recorded == IF outcome = "exception" THEN g ELSE append_history(g)
    IN  [release(recorded) EXCEPT !.pc[t] = "idle"]

FacadeInit ==
    /\ player = NewPlayer
    /\ npcs = <<>>
    /\ UnitInitRest

\* A coroutine calls generate_content: the prompt is formatted (when that
\* raises, the fallback response is returned at once) and the gate is entered.
Enter ==
    \E t \in Callers, formatted \in BOOLEAN :
        /\ generator.pc[t] = "idle"
        /\ generator.calls < MaxCalls
        /\ generator' = IF formatted
                        THEN acquire([generator EXCEPT !.calls = @ + 1], t)
                        ELSE [generator EXCEPT !.calls = @ + 1]
        /\ last' = [op |-> "enter", caller |-> t, formatted |-> formatted]
        /\ UNCHANGED <<player, npcs, items, locations, current_state, combat_state, result, session>>

\* A woken waiter resumes: it leaves the queue and holds the lock.
Resume ==
    \E t \in Callers :
        /\ generator.pc[t] = "woken"
        /\ generator' = [generator EXCEPT !.waiters = SelectSeq(@, LAMBDA w : w # t),
                                          !.locked = TRUE, !.pc[t] = "locked"]
        /\ last' = [op |-> "resume", caller |-> t]
        /\ UNCHANGED <<player, npcs, items, locations, current_state, combat_state, result, session>>

\* The holder of the lock starts the backend call.
Call ==
    \E t \in Callers :
        /\ generator.pc[t] = "locked"
        /\ generator' = [generator EXCEPT !.pc[t] = "calling"]
        /\ last' = [op |-> "call", caller |-> t]
        /\ UNCHANGED <<player, npcs, items, locations, current_state, combat_state, result, session>>

\* The backend call returns or raises, and generate_content runs to its end.
BackendReturn ==
    \E t \in Callers, outcome \in BackendOutcomes :
        /\ generator.pc[t] = "calling"
        /\ generator' = finish_call(generator, t, outcome)
        /\ last' = [op |-> "return", caller |-> t, outcome |-> outcome]
        /\ UNCHANGED <<player, npcs, items, locations, current_state, combat_state, result, session>>

FacadeNext ==
    \/ Enter
    \/ Resume
    \/ Call
    \/ BackendReturn

SpecFacade == FacadeInit /\ [][FacadeNext]_vars

\* The callers whose backend call is in flight.
InFlight == {t \in Callers : generator.pc[t] = "calling"}

\* C33: at most one call to the backend is in flight at any time, and the
\* caller in flight is the one that holds the lock.
C33_OneCallInFlight ==
    /\ Cardinality(InFlight) <= 1
    /\ InFlight # {} => generator.locked

\* A backend call is in flight while another caller waits at the gate.
C33_Witness ==
    /\ \E t \in Callers : generator.pc[t] = "calling"
    /\ \E t \in Callers : generator.pc[t] = "waiting"
    /\ generator.waiters # <<>>

\* C34: context_history never holds more than max_context_length entries;
\* a call whose backend returned appends its entry at the end, evicting the
\* oldest entry when the history is full, and nothing else changes the
\* history, so that it holds the most recent entries in the order of the
\* calls.
C34_HistoryKeepsLastTen ==
    [][ LET h == generator.context_history
            entry == [timestamp |-> generator.clock + 1]
        IN  /\ Len(generator'.context_history) <= max_context_length
            /\ IF last'.op = "return" /\ last'.outcome # "exception"
               THEN generator'.context_history =
                       IF Len(h) < max_context_length THEN Append(h, entry)
                       ELSE Append(Tail(h), entry)
               ELSE generator'.context_history = h
            /\ \A i \in 1..(Len(generator'.context_history) - 1) :
                  generator'.context_history[i].timestamp + 1 =
                      generator'.context_history[i + 1].timestamp ]_vars

\* The eleventh entry has just been appended to a full history: the first
\* entry was evicted and the history holds entries 2 to 11.
C34_Witness ==
    /\ last.op = "return" /\ last.outcome # "exception"
    /\ Len(generator.context_history) = max_context_length
    /\ generator.context_history[1].timestamp = 2
    /\ generator.context_history[max_context_length].timestamp = 11

\* The event loop runs every coroutine that is ready, and every backend call
\* returns or raises.
SpecFacadeLive ==
    /\ FacadeInit
    /\ [][FacadeNext]_vars
    /\ WF_vars(Resume)
    /\ WF_vars(Call)
    /\ WF_vars(BackendReturn)

\* C40: every caller inside generate_content, waiting at the gate included,
\* eventually returns, and a lock that is held is eventually free again,
\* whatever the way each backend call ends.
C40_GateAlwaysReleased ==
    /\ \A t \in Callers : (generator.pc[t] # "idle") ~> (generator.pc[t] = "idle")
    /\ generator.locked ~> ~generator.locked

\* A call whose validation raised has just left generate_content: the lock
\* is free and the caller that waited for it has been woken.
C40_Witness ==
    /\ last.op = "return" /\ last.outcome = "invalid"
    /\ ~generator.locked
    /\ generator.waiters # <<>>
    /\ generator.pc[Head(generator.waiters)] = "woken"
    /\ generator.pc[last.caller] = "idle"

----------------------------------------------------------------------------
(* The front end (main.py): handle_input runs on the GUI thread and hands   *)
(* each command to the event loop as a task of its own (run_coroutine);    *)
(* the loop, on its thread, runs a task until it finishes or suspends at   *)
(* an await, then takes another; the completion callback of a finished     *)
(* task runs on the GUI thread again.                                      *)

MaxSubmitted == 3   \* commands submitted in one behaviour

SessionCommands == {c_move_north, c_attack_goblin, s_retreat}

\* Variant in which the backend is called through an awaited, asynchronous
\* client.
AwaitSuspends_async(point) == point = "backend"

\* Whether the task suspends at an await of process_command's path.  The
\* gate of the generator and the lock of the image manager suspend a task
\* only when they are held; the backend calls for text and for images are
\* synchronous calls, which keep the loop.
AwaitSuspends(point) ==
    CASE point = "gate" -> generator.locked \/ generator.waiters # <<>>
      [] point = "backend" -> FALSE
      [] point = "image" -> FALSE

Tasks == DOMAIN session.tasks

\* The tasks whose process_command has started and not returned.
MidHandling == {t \in Tasks : session.tasks[t].pc \in {"routed", "handled", "flagged"}}

\* The loop gives a step to the task that holds it, or to any task when
\* nobody holds it.
MayRun(t) == session.current = t \/ session.current = 0

\* The session after task t moved to pc; the task keeps the loop unless it
\* suspended or finished.
Advance(t, pc, suspended, fields) ==
    [ tasks |-> [session.tasks EXCEPT ![t] = [fields EXCEPT !.pc = pc]],
      current |-> IF suspended \/ pc = "done" THEN 0 ELSE t ]

\* handle_input on the GUI thread: the command becomes a task of the loop.
Submit ==
    /\ Len(session.tasks) < MaxSubmitted
    /\ \E cmd \in SessionCommands :
         /\ session' = [session EXCEPT !.tasks =
                           Append(@, [cmd |-> cmd, pc |-> "ready", route |-> FALSE,
                                      flag |-> FALSE])]
         /\ last' = [op |-> "submit", cmd |-> cmd]
    /\ UNCHANGED <<player, npcs, items, locations, current_state, combat_state, result, generator>>

\* process_command reads combat_state and enters the handler it selects,
\* which runs up to its call of the content generator.
Route ==
    /\ \E t \in Tasks :
         /\ MayRun(t)
         /\ session.tasks[t].pc = "ready"
         /\ session' = Advance(t, "routed",
                               AwaitSuspends("gate") \/ AwaitSuspends("backend"),
                               [session.tasks[t] EXCEPT !.route = combat_state])
         /\ last' = [op |-> "route", task |-> t]
    /\ UNCHANGED <<player, npcs, items, locations, current_state, combat_state, result, generator>>

\* What the content generator and the random source deliver to the handler
\* of cmd.
SessionDraws(cmd) ==
    { [NoDraw EXCEPT !.gen = gen, !.roll = rolled, !.retreat = draw] :
        gen \in IF cmd \in MoveCommands /\ LeadsToNew(Direction(cmd))
                THEN Gens(Direction(cmd)) ELSE {NoGen},
        rolled \in RollSample, draw \in RetreatDraws }

\* The handler changes the game world and returns its result record.
Handle ==
    /\ player.hp > -MaxHpDeficit
    /\ \E t \in Tasks :
         /\ MayRun(t)
         /\ session.tasks[t].pc = "routed"
         /\ \E d \in SessionDraws(session.tasks[t].cmd) :
              \E out \in {process_command(World, session.tasks[t].route,
                                          session.tasks[t].cmd, d)} :
                 /\ Len(out.w.items) <= MaxItems
                 /\ Cardinality(DOMAIN out.w.locations) <= MaxLocations
                 /\ player' = out.w.player
                 /\ npcs' = out.w.npcs
                 /\ items' = out.w.items
                 /\ locations' = out.w.locations
                 /\ current_state' = out.w.current_state
                 /\ result' = out.result
                 /\ session' = Advance(t, "handled", FALSE,
                                       [session.tasks[t] EXCEPT !.flag = out.combat_state])
         /\ last' = [op |-> "handle", task |-> t]
    /\ UNCHANGED <<combat_state, generator>>

\* process_command sets combat_state from the result, then awaits the
\* location image.
SetFlag ==
    /\ \E t \in Tasks :
         /\ MayRun(t)
         /\ session.tasks[t].pc = "handled"
         /\ combat_state' = session.tasks[t].flag
         /\ session' = Advance(t, "flagged", AwaitSuspends("image"), session.tasks[t])
         /\ last' = [op |-> "set_flag", task |-> t]
    /\ UNCHANGED <<player, npcs, items, locations, current_state, result, generator>>

\* process_command writes the output and returns; run_coroutine schedules
\* the completion callback on the GUI thread.
Finish ==
    /\ \E t \in Tasks :
         /\ MayRun(t)
         /\ session.tasks[t].pc = "flagged"
         /\ session' = Advance(t, "done", FALSE, session.tasks[t])
         /\ last' = [op |-> "finish", task |-> t]
    /\ UNCHANGED <<player, npcs, items, locations, current_state, combat_state, result, generator>>

\* handle_command_complete on the GUI thread: reads combat_state and the
\* player's statistics for the status display.
Complete ==
    /\ \E t \in Tasks :
         /\ session.tasks[t].pc = "done"
         /\ session' = [session EXCEPT !.tasks[t].pc = "completed"]
         /\ last' = [op |-> "complete", task |-> t, combat_state |-> combat_state,
                     hp |-> player.hp]
    /\ UNCHANGED <<player, npcs, items, locations, current_state, combat_state, result, generator>>

SessionNext == Submit \/ Route \/ Handle \/ SetFlag \/ Finish \/ Complete

SpecSession == Init /\ [][SessionNext]_vars

\* The tasks that take a step of their command's handling, completion
\* callback included.
Stepping == {t \in Tasks : session'.tasks[t].pc # session.tasks[t].pc}

\* C35 as stated: no step of a command's handling, its completion callback
\* included, happens while another command is in the middle of its
\* handling.
C35_NoStepDuringAnotherCommand ==
    [][\A t \in Stepping : MidHandling \ {t} = {}]_vars

\* C35: the process_command bodies run one at a time to completion: at most
\* one command is between its routing read and its return, only that
\* command's steps change the game world or the combat-mode flag, a
\* process_command starts only when no other is in its middle, and the
\* completion callback changes nothing.
C35_CommandsRunOneAtATime ==
    [][/\ Cardinality(MidHandling') <= 1
       /\ \A t \in Stepping :
            /\ session'.tasks[t].pc # "completed" => MidHandling \ {t} = {}
            /\ session'.tasks[t].pc = "completed" =>
                  World' = World /\ combat_state' = combat_state
       /\ (World' # World \/ combat_state' # combat_state) =>
            \E t \in Stepping : MidHandling' \subseteq {t} /\ session.current \in {0, t}
      ]_vars

\* A second command was submitted while the first is between its handler
\* and the write of the combat-mode flag: the world is in combat, the flag
\* is not set yet, and the second command has not started.
C35_Witness ==
    /\ \E t, u \in Tasks : session.tasks[t].pc = "handled" /\ session.tasks[u].pc = "ready"
    /\ current_state.combat_active /\ ~combat_state

----------------------------------------------------------------------------
(* The population of dangerous locations: lazy generations whose theme is  *)
(* dark, with population envelopes that are complete, empty or malformed.  *)

PopulationScenarios ==
    { [ data |-> GenData(t_dark, <<f_shelf>>),
        population |-> [empty |-> FALSE, npcs |-> <<[name |-> n_Goblin]>>, items |-> <<>>],
        item_hidden |-> <<>>, searchable |-> {f_shelf}, potion_hidden |-> potion_hidden ] :
        potion_hidden \in BOOLEAN }
    \cup
    { [ data |-> GenData(t_generic, <<f_shelf>>),
        population |-> [empty |-> FALSE, npcs |-> <<>>,
                        items |-> <<[name |-> n_ShortSword, type |-> s_weapon,
                                     effect_value |-> 3]>>],
        item_hidden |-> <<hidden>>, searchable |-> {}, potion_hidden |-> FALSE ] :
        hidden \in BOOLEAN }
    \cup
    { [ data |-> GenData(t_dark, <<f_shelf>>),
        population |-> [empty |-> TRUE, npcs |-> <<>>, items |-> <<>>],
        item_hidden |-> <<>>, searchable |-> {}, potion_hidden |-> FALSE ],
      [ data |-> GenData(t_dark, <<f_shelf>>),
        population |-> [empty |-> FALSE, npcs |-> <<[name |-> n_Goblin]>>, items |-> <<>>,
                        items_malformed |-> TRUE],
        item_hidden |-> <<>>, searchable |-> {}, potion_hidden |-> FALSE ] }

\* A move into a location that is generated and populated.
MovePopulate ==
    /\ ~combat_state
    /\ \E cmd \in MoveCommands :
         /\ LeadsToNew(Direction(cmd))
         /\ \E gen \in GensOf(Direction(cmd), PopulationScenarios) :
               CommandWithin(cmd, [NoDraw EXCEPT !.gen = gen], MaxExplored)

c_examine_potion ==
    <<"e", "x", "a", "m", "i", "n", "e", " ", "h", "e", "a", "l", "t", "h", " ", "p", "o", "t",
      "i", "o", "n">>
c_examine_sword ==
    <<"l", "o", "o", "k", " ", "a", "t", " ", "t", "h", "e", " ", "s", "h", "o", "r", "t", " ",
      "s", "w", "o", "r", "d">>
ExamineCommands == {c_examine_potion, c_examine_sword}

\* "examine <item>" and "look at <item>" typed outside combat.
Examine ==
    /\ ~combat_state
    /\ \E cmd \in ExamineCommands : Command(cmd, NoDraw)

PopulateNext == Move \/ MovePopulate \/ Take \/ Search \/ Look \/ Examine

SpecPopulate == Init /\ [][PopulateNext]_vars

\* The healing potions among the visible and hidden items of the location l
\* of the world w.
PotionsIn(w, l) ==
    { id \in Range(w.locations[l].items) \cup Range(w.locations[l].hidden_items) :
        /\ w.items[id].item_type = "potion"
        /\ \E k \in 1..Len(w.items[id].effects) : w.items[id].effects[k].type = "heal" }

\* C36: a location with a dangerous theme holds a healing potion among its
\* visible or hidden items at the end of the command that generated and
\* populated it.
C36_DangerousLocationHasPotion ==
    [][\A l \in DOMAIN locations' \ DOMAIN locations :
          (IsDangerous(locations'[l].theme) /\ ~IsFallback(locations'[l]))
             => PotionsIn(World', l) # {}]_vars

\* The hidden items of the location l whose name is part of the name of one
\* of the features of l.
MatchingHidden(w, l) ==
    { id \in Range(w.locations[l].hidden_items) :
        \E k \in 1..Len(w.locations[l].features) :
           IsSubstr(Lower(w.items[id].name), Lower(w.locations[l].features[k])) }

\* C37: an item that is among the hidden items of a location is not taken
\* and not examined by the next command, whatever it is; it becomes visible
\* only by a search command typed in that location, for a feature whose name
\* holds the item's name, and then it is among the visible items once and no
\* longer among the hidden ones; the search of the shelf moves every hidden
\* item whose name is part of the shelf's name.
C37_HiddenUntilSearched ==
    [][\A l \in DOMAIN locations :
          /\ \A id \in Range(locations[l].hidden_items) :
                /\ id \notin Range(player'.inventory)
                /\ ~items'[id].is_taken
                /\ result'.message # <<"item examination: ", id>>
                /\ id \in Range(locations'[l].items) =>
                      /\ last'.op = "command" /\ last'.cmd \in SearchCommands
                      /\ l = player.current_location_id
                      /\ id \in MatchingHidden(World, l)
                      /\ id \notin Range(locations'[l].hidden_items)
                      /\ Cardinality(Places(World', id)) = 1
          /\ ( /\ last'.op = "command" /\ last'.cmd = c_search_shelf /\ ~last'.in_combat
               /\ l = player.current_location_id
               /\ f_shelf \in Range(locations[l].features) )
             => \A id \in Range(locations[l].hidden_items) :
                   IsSubstr(Lower(items[id].name), Lower(f_shelf)) =>
                      /\ id \in Range(locations'[l].items)
                      /\ id \notin Range(locations'[l].hidden_items)
      ]_vars

\* The search of the shelf has just found the hidden Health Potion, which is
\* now among the visible items and no longer among the hidden ones.
C37_Witness ==
    /\ last.op = "command" /\ last.cmd = c_search_shelf
    /\ Len(result.message) >= 5 /\ result.message[5] = <<n_HealthPotion>>
    /\ locations[player.current_location_id].hidden_items = <<>>
    /\ \E id \in Range(locations[player.current_location_id].items) :
          items[id].name = n_HealthPotion

----------------------------------------------------------------------------
(* Several potions of one name: the starter Health Potion and the Health   *)
(* Potion guaranteed to a dangerous location, with the sword taken between *)
(* them.                                                                   *)

PotionScenarios ==
    { [ data |-> GenData(t_dark, <<f_shelf>>),
        population |-> [empty |-> FALSE, npcs |-> <<[name |-> n_Goblin]>>, items |-> <<>>],
        item_hidden |-> <<>>, searchable |-> {}, potion_hidden |-> FALSE ] }

\* The move north from the starting area into the dark location.
MoveCellar ==
    /\ ~combat_state
    /\ LeadsToNew(s_north)
    /\ \E gen \in GensOf(s_north, PotionScenarios) :
          Command(c_move_north, [NoDraw EXCEPT !.gen = gen])

PotionNext == Take \/ MoveCellar \/ Attack \/ CombatDefend \/ CombatUse \/ Use

SpecPotions == Init /\ [][PotionNext]_vars

\* C38: one use command, typed in combat or in exploration, takes at most
\* one item out of the inventory and marks at most one item as used.
C38_UseConsumesOneItem ==
    [][(last'.op = "command" /\ StartsWith(Lower(last'.cmd), s_use))
          => /\ Len(player.inventory) - Len(player'.inventory) <= 1
             /\ Cardinality({id \in 1..Len(items) : items'[id] # items[id]}) <= 1]_vars

\* C39: combat_active is set exactly when current_enemy is bound, in every
\* state between two commands; a command that changes one changes the
\* other.
C39_CombatActiveIffEnemyBound ==
    current_state.combat_active <=> (current_state.current_enemy # None)

\* A combat that was begun has just ended by the defeat of the enemy: the
\* flag is cleared and no enemy is bound.
C39_Witness ==
    /\ last.op = "command" /\ last.in_combat /\ last.cmd = s_attack
    /\ ~current_state.combat_active
    /\ current_state.current_enemy = None
    /\ \E i \in 1..Len(npcs) : npcs[i].is_defeated

====
